---- MODULE Spec2Model ----
(***************************************************************************)
(* A model of the billing data pipeline of aws-billing-dashboard:          *)
(* BillingDataProcessor (src/src/data_processor.py) applied to Cost        *)
(* Explorer reports, the AWSBillingClient that fetches them                *)
(* (src/src/aws_client.py) and BillingDashboard.run (src/app.py), which    *)
(* drives both.                                                            *)
(*                                                                         *)
(* Python values are modelled as follows.                                  *)
(*   dict            a function on strings (a record); a key is present   *)
(*                   iff it is in the DOMAIN; {} is the empty function     *)
(*   ordered dict    (the Metrics / Total mappings, iterated by .items()) *)
(*                   a sequence of [k, v] pairs with distinct keys        *)
(*   list            a sequence                                            *)
(*   str (amounts)   a sequence of one-character strings                   *)
(*   str (dates)     a triple <<year, month, day>> (ISO 8601 YYYY-MM-DD)   *)
(*   float (amounts) an integer number of hundredths                      *)
(*   Timestamp       the day number since 1970-01-01                      *)
(*   DataFrame       the sequence of its rows; empty iff the sequence is  *)
(*   an exception    the field "raised" of a call's result                *)
(*   a boto3 client  the record of its service, its region and the number  *)
(*                   of the boto3.client call that created it              *)
(*   st.stop()       the position "stopped" of the script                  *)
(***************************************************************************)
EXTENDS Integers, Sequences, FiniteSets, TLC

VARIABLES
    response,   \* the raw report handed to process_cost_and_usage_response
    pc,         \* how far the calls on the processor, or the run, have got
    raised,     \* the exception the normalizer, or a step of the run, raised;
                \* "none" if none
    df,         \* the DataFrame the normalizer returned
    summary,    \* the dict generate_cost_summary returned
    ranking,    \* the DataFrame get_top_services_by_cost returned
    top_n,      \* the top_n it was called with
    granularity, \* the granularity calculate_cost_trends was called with
    trends,     \* the dict calculate_cost_trends returned
    pivot_df,   \* the DataFrame calculate_service_cost_trends returned
    weekly_df,  \* the DataFrame aggregate_to_weekly returned
    reweekly_df,    \* what aggregate_to_weekly returned for weekly_df
    weekly_summary, \* the dict generate_cost_summary returned for weekly_df
    weekly_ranking, \* what get_top_services_by_cost returned for weekly_df
    region,     \* AWSBillingClient.region
    _client,    \* AWSBillingClient._client
    boto3_calls,    \* the calls of boto3.client made so far
    accesses,   \* what the accesses to the client property returned, in order
    requests,   \* the requests sent to Cost Explorer, in order
    days_diff,  \* run: the length of the chosen date range in days
    display_granularity, \* run: the granularity chosen in the sidebar
    aws_granularity,     \* run: the granularity asked of Cost Explorer
    raw_data,   \* run: what _load_billing_data returned
    weekly_calls,   \* run: the aws_granularity of the data of each
                    \* aggregate_to_weekly call
    shown       \* run: what has been put on the page, in order

\* The results of the trend and weekly calls.
later == <<granularity, trends, pivot_df, weekly_df>>

\* The results of the calls on the weekly DataFrame.
rebucketed == <<reweekly_df, weekly_summary, weekly_ranking>>

\* The Cost Explorer client.
billing_client == <<region, _client, boto3_calls, accesses, requests>>

\* The locals of BillingDashboard.run.
dashboard ==
    <<days_diff, display_granularity, aws_granularity, raw_data, weekly_calls,
      shown>>

further == <<rebucketed, billing_client, dashboard>>

vars == <<response, pc, raised, df, summary, ranking, top_n, later, further>>

-----------------------------------------------------------------------------
(* Bounds of the model. *)

\* A generated report has at most this many periods, groups and metric
\* entries in total.
MaxNodes == 5

\* A record set handed directly to the aggregator has at most this many rows.
MaxRows == 3

\* get_top_services_by_cost is called with top_n in 0..MaxTopN.
MaxTopN == 3

-----------------------------------------------------------------------------
(* Values. *)

None == [None |-> TRUE]

\* Stands for a value that has not been computed yet.
Unset == [Unset |-> TRUE]

EmptyDataFrame == <<>>

Min(a, b) == IF a <= b THEN a ELSE b

RECURSIVE SumSeq(_)
SumSeq(s) == IF s = <<>> THEN 0 ELSE Head(s) + SumSeq(Tail(s))

-----------------------------------------------------------------------------
(* float(str), for plain decimal notation: an optional sign, digits, and  *)
(* an optional fraction of at most two digits (the amounts of the model).  *)

Digits == {"0", "1", "2", "3", "4", "5", "6", "7", "8", "9"}

DigitValue(c) ==
    CASE c = "0" -> 0 [] c = "1" -> 1 [] c = "2" -> 2 [] c = "3" -> 3
      [] c = "4" -> 4 [] c = "5" -> 5 [] c = "6" -> 6 [] c = "7" -> 7
      [] c = "8" -> 8 [] c = "9" -> 9

RECURSIVE DigitsValue(_)
DigitsValue(s) ==
    IF s = <<>> THEN 0
    ELSE 10 * DigitsValue(SubSeq(s, 1, Len(s) - 1)) + DigitValue(s[Len(s)])

AllDigits(s) == \A i \in 1..Len(s) : s[i] \in Digits

\* Only the first fraction digit is read.
FractionValueFirstDigit(s) ==
    IF Len(s) = 0 THEN 0 ELSE 10 * DigitValue(s[1])

\* The value of the fraction digits in hundredths.
FractionValue(s) ==
    IF Len(s) = 0 THEN 0
    ELSE IF Len(s) = 1 THEN 10 * DigitValue(s[1])
    ELSE 10 * DigitValue(s[1]) + DigitValue(s[2])

\* An amount that is no number counts as zero.
ParseFloatCoerce(s) == [ok |-> TRUE, val |-> 0]

\* [ok |-> TRUE, val |-> hundredths], or [ok |-> FALSE] where float raises
\* ValueError.
ParseFloat(s) ==
    LET signed == Len(s) > 0 /\ s[1] \in {"-", "+"}
        sign   == IF Len(s) > 0 /\ s[1] = "-" THEN -1 ELSE 1
        body   == IF signed THEN Tail(s) ELSE s
        dots   == {i \in 1..Len(body) : body[i] = "."}
        dot    == IF dots = {} THEN Len(body) + 1
                  ELSE CHOOSE i \in dots : \A j \in dots : i <= j
        whole  == SubSeq(body, 1, dot - 1)
        frac   == SubSeq(body, dot + 1, Len(body))
    IN  IF /\ Cardinality(dots) <= 1
           /\ AllDigits(whole) /\ AllDigits(frac)
           /\ Len(whole) + Len(frac) > 0
           /\ Len(frac) <= 2
        THEN [ok  |-> TRUE,
              val |-> sign * (100 * DigitsValue(whole) + FractionValue(frac))]
        ELSE [ok |-> FALSE]

-----------------------------------------------------------------------------
(* pd.to_datetime of an ISO date string: the day number since 1970-01-01  *)
(* (proleptic Gregorian calendar).                                         *)

ToDatetime(date) ==
    LET y   == IF date[2] <= 2 THEN date[1] - 1 ELSE date[1]
        era == y \div 400
        yoe == y - era * 400
        mp  == (date[2] + 9) % 12
        doy == (153 * mp + 2) \div 5 + date[3] - 1
        doe == yoe * 365 + yoe \div 4 - yoe \div 100 + doy
    IN  era * 146097 + doe - 719468

-----------------------------------------------------------------------------
(* BillingDataProcessor.process_cost_and_usage_response *)

Returned(rows) == [raised |-> "none", rows |-> rows]
Raise(error)   == [raised |-> error, rows |-> <<>>]

\* The last key of the group instead of the first.
ServiceOfLastKey(keys) == IF keys # <<>> THEN keys[Len(keys)] ELSE "Total"

\* keys[0] if keys else 'Total'
ServiceOf(keys) == IF keys # <<>> THEN keys[1] ELSE "Total"

RECURSIVE MetricRows(_, _, _, _)
\* for metric_name, metric_data in metrics.items(): data_rows.append({...})
MetricRows(items, start_date, end_date, service) ==
    IF items = <<>> THEN Returned(<<>>)
    ELSE LET metric_name == Head(items).k
             metric_data == Head(items).v
         IN  IF "Amount" \notin DOMAIN metric_data THEN Raise("KeyError")
             ELSE LET amount == ParseFloat(metric_data.Amount)
                  IN  IF ~amount.ok THEN Raise("ValueError")
                      ELSE IF "Unit" \notin DOMAIN metric_data
                      THEN Raise("KeyError")
                      ELSE LET rest == MetricRows(Tail(items), start_date,
                                                  end_date, service)
                               row  == [StartDate  |-> start_date,
                                        EndDate    |-> end_date,
                                        Service    |-> service,
                                        MetricName |-> metric_name,
                                        Amount     |-> amount.val,
                                        Unit       |-> metric_data.Unit]
                           IN  IF rest.raised # "none" THEN rest
                               ELSE Returned(<<row>> \o rest.rows)

\* Only the first group of a period is read.
GroupRowsFirstOnly(groups, start_date, end_date) ==
    IF groups = <<>> THEN Returned(<<>>)
    ELSE LET group == Head(groups)
         IN  IF "Keys" \notin DOMAIN group THEN Raise("KeyError")
             ELSE IF "Metrics" \notin DOMAIN group THEN Raise("KeyError")
             ELSE MetricRows(group.Metrics, start_date, end_date,
                             ServiceOf(group.Keys))

RECURSIVE GroupRows(_, _, _)
\* for group in result['Groups']: ...
GroupRows(groups, start_date, end_date) ==
    IF groups = <<>> THEN Returned(<<>>)
    ELSE LET group == Head(groups)
         IN  IF "Keys" \notin DOMAIN group THEN Raise("KeyError")
             ELSE IF "Metrics" \notin DOMAIN group THEN Raise("KeyError")
             ELSE LET first == MetricRows(group.Metrics, start_date, end_date,
                                          ServiceOf(group.Keys))
                  IN  IF first.raised # "none" THEN first
                      ELSE LET rest == GroupRows(Tail(groups), start_date,
                                                 end_date)
                           IN  IF rest.raised # "none" THEN rest
                               ELSE Returned(first.rows \o rest.rows)

\* The body of the loop over response['ResultsByTime'].
ResultRows(result) ==
    IF "TimePeriod" \notin DOMAIN result THEN Raise("KeyError")
    ELSE IF "Start" \notin DOMAIN result.TimePeriod THEN Raise("KeyError")
    ELSE IF "End" \notin DOMAIN result.TimePeriod THEN Raise("KeyError")
    ELSE LET start_date == result.TimePeriod.Start
             end_date   == result.TimePeriod.End
         IN  IF "Groups" \in DOMAIN result
             THEN GroupRows(result.Groups, start_date, end_date)
             ELSE IF "Total" \notin DOMAIN result THEN Raise("KeyError")
             ELSE MetricRows(result.Total, start_date, end_date, "Total")

RECURSIVE DataRows(_)
\* for result in response['ResultsByTime']: ...
DataRows(results) ==
    IF results = <<>> THEN Returned(<<>>)
    ELSE LET first == ResultRows(Head(results))
         IN  IF first.raised # "none" THEN first
             ELSE LET rest == DataRows(Tail(results))
                  IN  IF rest.raised # "none" THEN rest
                      ELSE Returned(first.rows \o rest.rows)

\* df['StartDate'] = pd.to_datetime(df['StartDate']), and EndDate likewise.
ConvertDates(rows) ==
    [i \in 1..Len(rows) |->
        [rows[i] EXCEPT !.StartDate = ToDatetime(@), !.EndDate = ToDatetime(@)]]

\* not response: None and the empty mapping are falsy.
Falsy(r) == r = None \/ DOMAIN r = {}

\* The guard tests only whether the report is falsy.
ProcessNoFieldGuard(r) ==
    IF Falsy(r) THEN Returned(EmptyDataFrame)
    ELSE IF "ResultsByTime" \notin DOMAIN r THEN Raise("KeyError")
    ELSE LET data == DataRows(r.ResultsByTime)
         IN  IF data.raised # "none" THEN data
             ELSE Returned(ConvertDates(data.rows))

\* A failure inside the loop is caught and an empty DataFrame returned.
ProcessSwallowErrors(r) ==
    IF Falsy(r) \/ "ResultsByTime" \notin DOMAIN r
    THEN Returned(EmptyDataFrame)
    ELSE LET data == DataRows(r.ResultsByTime)
         IN  IF data.raised # "none" THEN Returned(EmptyDataFrame)
             ELSE Returned(ConvertDates(data.rows))

process_cost_and_usage_response(r) ==
    IF Falsy(r) \/ "ResultsByTime" \notin DOMAIN r
    THEN Returned(EmptyDataFrame)
    ELSE LET data == DataRows(r.ResultsByTime)
         IN  IF data.raised # "none" THEN data
             ELSE Returned(ConvertDates(data.rows))

-----------------------------------------------------------------------------
(* Helpers for the pandas operations of the aggregator. *)

\* The strings that occur in the Service column, in ascending (code point)
\* order, which is the order groupby('Service') sorts its groups in.
ServiceNames == <<"Amazon EC2-Instance", "Amazon S3", "Total", "us-east-1">>

ServiceRank(s) == CHOOSE i \in 1..Len(ServiceNames) : ServiceNames[i] = s

\* Every metric counts as the cost metric.
IsAnyMetric(row) == TRUE

IsBlendedCost(row) == row.MetricName = "BlendedCost"

\* A row of a service, whatever its metric.
IsOfService(row) == row.Service # "Total"

IsBlendedCostOfService(row) ==
    row.MetricName = "BlendedCost" /\ row.Service # "Total"

RECURSIVE SumAmount(_)
\* rows['Amount'].sum()
SumAmount(rows) ==
    IF rows = <<>> THEN 0 ELSE Head(rows).Amount + SumAmount(Tail(rows))

Column(rows, name) == {rows[i][name] : i \in 1..Len(rows)}

RECURSIVE SortedByRank(_)
\* The services of a set as a sequence in ascending order.
SortedByRank(S) ==
    IF S = {} THEN <<>>
    ELSE LET least == CHOOSE s \in S :
                         \A t \in S : ServiceRank(s) <= ServiceRank(t)
         IN  <<least>> \o SortedByRank(S \ {least})

RECURSIVE FirstSeen(_)
\* The services of the rows in the order of their first occurrence.
FirstSeen(rows) ==
    IF rows = <<>> THEN <<>>
    ELSE LET before == FirstSeen(SubSeq(rows, 1, Len(rows) - 1))
             s      == rows[Len(rows)].Service
         IN  IF \E i \in 1..Len(before) : before[i] = s THEN before
             ELSE Append(before, s)

SumOfService(rows, s) ==
    LET OfService(row) == row.Service = s
    IN  SumAmount(SelectSeq(rows, OfService))

GroupByServiceFirstSeen(rows) ==
    LET keys == FirstSeen(rows)
    IN  [i \in 1..Len(keys) |->
            [Service |-> keys[i], Amount |-> SumOfService(rows, keys[i])]]

\* rows.groupby('Service')['Amount'].sum(): one entry per service, the groups
\* sorted by service (sort=True is the default of groupby).
GroupByService(rows) ==
    LET keys == SortedByRank(Column(rows, "Service"))
    IN  [i \in 1..Len(keys) |->
            [Service |-> keys[i], Amount |-> SumOfService(rows, keys[i])]]

RECURSIVE Arrangements(_)
\* All the orders of the entries of a sequence.
Arrangements(s) ==
    IF s = <<>> THEN {<<>>}
    ELSE UNION {{<<s[i]>> \o rest :
                    rest \in Arrangements(
                        SubSeq(s, 1, i - 1) \o SubSeq(s, i + 1, Len(s)))} :
                i \in 1..Len(s)}

Descending(s) == \A i \in 1..(Len(s) - 1) : s[i].Amount >= s[i + 1].Amount

\* s.sort_values('Amount', ascending=False): the default sort (quicksort) is
\* not stable, so entries of equal Amount come out in any order.
SortValuesDescending(s) == {a \in Arrangements(s) : Descending(a)}

\* top_n is ignored.
HeadAll(s, n) == s

\* s.head(n), n >= 0
DfHead(s, n) == SubSeq(s, 1, Min(n, Len(s)))

-----------------------------------------------------------------------------
(* BillingDataProcessor.get_top_services_by_cost: the results it can       *)
(* return.                                                                 *)

RECURSIVE StableSortDescending(_)
\* Insertion sort: entries of equal Amount keep their order.
StableSortDescending(s) ==
    IF s = <<>> THEN <<>>
    ELSE LET sorted == StableSortDescending(SubSeq(s, 1, Len(s) - 1))
             x      == s[Len(s)]
             k      == Cardinality({i \in 1..Len(sorted) :
                                       sorted[i].Amount >= x.Amount})
         IN  SubSeq(sorted, 1, k) \o <<x>> \o SubSeq(sorted, k + 1, Len(sorted))

\* groupby(sort=False) and a stable sort: the services in the order of their
\* first record, sorted by amount with ties left in that order.
TopServicesFirstSeen(rows, n) ==
    IF rows = <<>> THEN {EmptyDataFrame}
    ELSE LET cost_df == SelectSeq(rows, IsBlendedCostOfService)
         IN  IF cost_df = <<>> THEN {EmptyDataFrame}
             ELSE {DfHead(StableSortDescending(GroupByServiceFirstSeen(cost_df)), n)}

get_top_services_by_cost(rows, n) ==
    IF rows = <<>> THEN {EmptyDataFrame}
    ELSE LET cost_df == SelectSeq(rows, IsBlendedCostOfService)
         IN  IF cost_df = <<>> THEN {EmptyDataFrame}
             ELSE {DfHead(sorted, n) :
                      sorted \in SortValuesDescending(GroupByService(cost_df))}

-----------------------------------------------------------------------------
(* BillingDataProcessor.generate_cost_summary *)

DefaultSummary ==
    [total_cost |-> 0, service_count |-> 0, time_periods |-> 0,
     top_service |-> "N/A", top_service_cost |-> 0]

\* The label of the first entry, whatever its value.
IdxFirst(series) == series[1].Service

\* service_costs.idxmax(): the label of the first entry with the greatest
\* value.
IdxMax(series) ==
    LET i == CHOOSE j \in 1..Len(series) :
                /\ \A k \in 1..Len(series) : series[j].Amount >= series[k].Amount
                /\ \A k \in 1..(j - 1) : series[k].Amount < series[j].Amount
    IN  series[i].Service

\* service_costs.max()
SeriesMax(series) ==
    LET i == CHOOSE j \in 1..Len(series) :
                \A k \in 1..Len(series) : series[j].Amount >= series[k].Amount
    IN  series[i].Amount

\* The summary is taken over the rows of every metric.
SummaryOfAllMetrics(rows) ==
    IF rows = <<>> THEN DefaultSummary
    ELSE LET services == SelectSeq(rows, LAMBDA row : row.Service # "Total")
             service_costs == GroupByService(services)
         IN  [total_cost    |-> SumAmount(rows),
              service_count |-> Cardinality(Column(services, "Service")),
              time_periods  |-> Cardinality(Column(rows, "StartDate")),
              top_service   |-> IF service_costs # <<>>
                                THEN IdxMax(service_costs) ELSE "N/A",
              top_service_cost |-> IF service_costs # <<>>
                                   THEN SeriesMax(service_costs) ELSE 0]

generate_cost_summary(rows) ==
    IF rows = <<>> THEN DefaultSummary
    ELSE LET cost_df  == SelectSeq(rows, IsBlendedCost)
             services == SelectSeq(cost_df, IsBlendedCostOfService)
             service_costs == GroupByService(services)
         IN  [total_cost    |-> SumAmount(cost_df),
              service_count |-> Cardinality(Column(services, "Service")),
              time_periods  |-> Cardinality(Column(cost_df, "StartDate")),
              top_service   |-> IF service_costs # <<>>
                                THEN IdxMax(service_costs) ELSE "N/A",
              top_service_cost |-> IF service_costs # <<>>
                                   THEN SeriesMax(service_costs) ELSE 0]

-----------------------------------------------------------------------------
(* Float division, kept exact: a quotient is a fraction in lowest terms    *)
(* with a positive denominator. Amounts stay integers (hundredths).        *)

Abs(x) == IF x < 0 THEN -x ELSE x

RECURSIVE GCD(_, _)
GCD(a, b) == IF b = 0 THEN a ELSE GCD(b, a % b)

\* num // den: the quotient rounded down.
FloorDivide(num, den) == [num |-> num \div den, den |-> 1]

\* num / den, for den # 0
Divide(num, den) ==
    LET g    == GCD(Abs(num), Abs(den))
        sign == IF den < 0 THEN -1 ELSE 1
    IN  [num |-> sign * (num \div g), den |-> sign * (den \div g)]

-----------------------------------------------------------------------------
(* BillingDataProcessor.calculate_cost_trends *)

RECURSIVE SortedDates(_)
\* The dates of a set as a sequence in ascending order.
SortedDates(S) ==
    IF S = {} THEN <<>>
    ELSE LET least == CHOOSE d \in S : \A e \in S : d <= e
         IN  <<least>> \o SortedDates(S \ {least})

\* The 'Total' rows are left out of the sum of a period.
SumOfPeriodWithoutTotal(rows, d) ==
    SumAmount(SelectSeq(rows, LAMBDA row :
                                  row.StartDate = d /\ row.Service # "Total"))

SumOfPeriod(rows, d) ==
    SumAmount(SelectSeq(rows, LAMBDA row : row.StartDate = d))

\* cost_df.groupby('StartDate')['Amount'].sum().reset_index(): one entry per
\* StartDate, the groups sorted by StartDate.
GroupByStartDate(rows) ==
    LET keys == SortedDates(Column(rows, "StartDate"))
    IN  [i \in 1..Len(keys) |->
            [StartDate |-> keys[i], Amount |-> SumOfPeriod(rows, keys[i])]]

\* total_by_period.sort_values('StartDate'): the StartDate values of the
\* entries are distinct, so there is one ascending order.
SortValuesByStartDate(s) ==
    CHOOSE a \in Arrangements(s) :
        \A i \in 1..(Len(a) - 1) : a[i].StartDate <= a[i + 1].StartDate

\* Positions are counted from the start: -1 is the first entry.
IlocFromStart(s, i) == IF i < 0 THEN s[0 - i] ELSE s[i + 1]

\* s.iloc[i]: negative positions count from the end.
Iloc(s, i) == IF i < 0 THEN s[Len(s) + i + 1] ELSE s[i + 1]

\* The default of the granularity parameter.
DefaultGranularity == "DAILY"

\* Any other granularity is named as MONTHLY.
AverageLabelElseMonthly(g) ==
    IF g = "HOURLY" THEN "average_hourly_cost"
    ELSE IF g = "WEEKLY" THEN "average_weekly_cost"
    ELSE IF g = "DAILY" THEN "average_daily_cost"
    ELSE "average_monthly_cost"

AverageLabel(g) ==
    IF g = "HOURLY" THEN "average_hourly_cost"
    ELSE IF g = "WEEKLY" THEN "average_weekly_cost"
    ELSE IF g = "MONTHLY" THEN "average_monthly_cost"
    ELSE "average_daily_cost"

ChangeLabel(g) ==
    IF g = "HOURLY" THEN "hour_over_hour"
    ELSE IF g = "WEEKLY" THEN "week_over_week"
    ELSE IF g = "MONTHLY" THEN "month_over_month"
    ELSE "day_over_day"

\* The change is reported whenever the previous cost is not zero.
PreviousNotZero(previous_cost) == previous_cost # 0

\* if previous_cost > 0
PreviousPositive(previous_cost) == previous_cost > 0

\* The keys of old are not written.
NoOldKeys(period_change, change_amount) == <<>>

\* trends['mom_change_percent'], trends['mom_change_amount']
OldKeys(period_change, change_amount) ==
    [mom_change_percent |-> period_change,
     mom_change_amount  |-> change_amount]

\* The fields added for two periods or more.
ChangeFields(total_by_period, g) ==
    LET current_cost  == Iloc(total_by_period, -1).Amount
        previous_cost == Iloc(total_by_period, -2).Amount
    IN  IF PreviousPositive(previous_cost)
        THEN LET period_change ==
                     Divide((current_cost - previous_cost) * 100,
                            previous_cost)
                 change_label == ChangeLabel(g)
             IN  ((change_label \o "_change_percent") :> period_change)
                 @@ ((change_label \o "_change_amount")
                        :> (current_cost - previous_cost))
                 @@ OldKeys(period_change, current_cost - previous_cost)
        ELSE <<>>

\* The dict returned; {} is the empty function.
calculate_cost_trends(rows, g) ==
    IF rows = <<>> THEN <<>>
    ELSE LET cost_df == SelectSeq(rows, IsBlendedCost)
         IN  IF cost_df = <<>> THEN <<>>
             ELSE LET total_by_period ==
                          SortValuesByStartDate(GroupByStartDate(cost_df))
                      base ==
                          (AverageLabel(g)
                              :> Divide(SumAmount(total_by_period),
                                        Len(total_by_period)))
                          @@ [total_cost     |-> SumAmount(total_by_period),
                              periods        |-> Len(total_by_period),
                              cost_by_period |-> total_by_period,
                              granularity    |-> g]
                  IN  IF Len(total_by_period) >= 2
                      THEN ChangeFields(total_by_period, g) @@ base
                      ELSE base

-----------------------------------------------------------------------------
(* BillingDataProcessor.calculate_service_cost_trends *)

\* The rows of the table come in descending order of StartDate.
IndexDescending(S) ==
    LET up == SortedDates(S)
    IN  [i \in 1..Len(up) |-> up[Len(up) + 1 - i]]

\* The index of the pivot table: the StartDate values in ascending order.
PivotIndex(S) == SortedDates(S)

\* aggfunc of pivot_table is 'mean' by default: the cell of the rows that
\* share a StartDate and a Service is their mean.
Mean(rows) == Divide(SumAmount(rows), Len(rows))

\* fill_value=0
FillValue == Divide(0, 1)

\* cost_df.pivot_table(index='StartDate', columns='Service',
\* values='Amount', fill_value=0).reset_index(): a row per StartDate, which
\* holds StartDate and a cell per Service.
PivotTable(rows) ==
    LET index   == PivotIndex(Column(rows, "StartDate"))
        columns == Column(rows, "Service")
        Cell(d, s) ==
            LET cell_rows == SelectSeq(rows, LAMBDA row :
                                 row.StartDate = d /\ row.Service = s)
            IN  IF cell_rows = <<>> THEN FillValue ELSE Mean(cell_rows)
    IN  [i \in 1..Len(index) |->
            ("StartDate" :> index[i])
            @@ [s \in columns |-> Cell(index[i], s)]]

calculate_service_cost_trends(rows) ==
    IF rows = <<>> THEN EmptyDataFrame
    ELSE LET cost_df == SelectSeq(rows, IsBlendedCostOfService)
         IN  IF cost_df = <<>> THEN EmptyDataFrame
             ELSE PivotTable(cost_df)

-----------------------------------------------------------------------------
(* BillingDataProcessor.aggregate_to_weekly *)

\* Timestamp.dayofweek: Monday is 0 and Sunday 6; day 0, 1970-01-01, is a
\* Thursday.
DayOfWeek(day) == (day + 3) % 7

\* The period of a day starts on the Tuesday strictly before it.
WeekStartExclusive(day) == day - 1 - ((DayOfWeek(day) + 5) % 7)

\* StartDate.dt.to_period('W-MON').dt.start_time: 'W-MON' is the weekly
\* frequency whose periods END on a Monday, so the period of a day runs from
\* the Tuesday on or before it to the Monday on or after it.
WeekStart(day) == day - ((DayOfWeek(day) + 6) % 7)

\* The strings of the key columns in ascending (code point) order.
KeyStrings ==
    <<"Amazon EC2-Instance", "Amazon S3", "BlendedCost", "Hrs", "Total",
      "USD", "UnblendedCost", "UsageQuantity", "us-east-1">>

KeyRank(s) == CHOOSE i \in 1..Len(KeyStrings) : KeyStrings[i] = s

\* Group keys compare as tuples, column by column.
KeyBefore(a, b) ==
    \/ a[1] < b[1]
    \/ a[1] = b[1] /\ KeyRank(a[2]) < KeyRank(b[2])
    \/ a[1] = b[1] /\ a[2] = b[2] /\ KeyRank(a[3]) < KeyRank(b[3])
    \/ a[1] = b[1] /\ a[2] = b[2] /\ a[3] = b[3]
          /\ KeyRank(a[4]) < KeyRank(b[4])

RECURSIVE SortedKeys(_)
SortedKeys(S) ==
    IF S = {} THEN <<>>
    ELSE LET least == CHOOSE k \in S : \A l \in S \ {k} : KeyBefore(k, l)
         IN  <<least>> \o SortedKeys(S \ {least})

\* The groups are made without regard to the metric.
WeeklyKeyAnyMetric(row) ==
    <<WeekStart(row.StartDate), row.Service, "BlendedCost", row.Unit>>

WeeklyKey(row) ==
    <<WeekStart(row.StartDate), row.Service, row.MetricName, row.Unit>>

\* The weekly rows end a week after their start.
AggregateToWeeklyEndAfterSeven(rows) ==
    IF rows = <<>> THEN rows
    ELSE LET keys == SortedKeys({WeeklyKey(rows[i]) : i \in 1..Len(rows)})
             SumOfKey(k) ==
                 SumAmount(SelectSeq(rows, LAMBDA row : WeeklyKey(row) = k))
         IN  [i \in 1..Len(keys) |->
                 [StartDate  |-> keys[i][1],
                  EndDate    |-> keys[i][1] + 7,
                  Service    |-> keys[i][2],
                  MetricName |-> keys[i][3],
                  Amount     |-> SumOfKey(keys[i]),
                  Unit       |-> keys[i][4]]]

\* The weekly rows hold the first amount of their group, .agg('first').
AggregateToWeeklyFirst(rows) ==
    IF rows = <<>> THEN rows
    ELSE LET keys == SortedKeys({WeeklyKey(rows[i]) : i \in 1..Len(rows)})
             FirstOfKey(k) ==
                 SelectSeq(rows, LAMBDA row : WeeklyKey(row) = k)[1].Amount
         IN  [i \in 1..Len(keys) |->
                 [StartDate  |-> keys[i][1],
                  EndDate    |-> keys[i][1] + 6,
                  Service    |-> keys[i][2],
                  MetricName |-> keys[i][3],
                  Amount     |-> FirstOfKey(keys[i]),
                  Unit       |-> keys[i][4]]]

aggregate_to_weekly(rows) ==
    IF rows = <<>> THEN rows
    ELSE LET keys == SortedKeys({WeeklyKey(rows[i]) : i \in 1..Len(rows)})
             SumOfKey(k) ==
                 SumAmount(SelectSeq(rows, LAMBDA row : WeeklyKey(row) = k))
         IN  [i \in 1..Len(keys) |->
                 [StartDate  |-> keys[i][1],
                  EndDate    |-> keys[i][1] + 6,
                  Service    |-> keys[i][2],
                  MetricName |-> keys[i][3],
                  Amount     |-> SumOfKey(keys[i]),
                  Unit       |-> keys[i][4]]]

-----------------------------------------------------------------------------
(* AWSBillingClient (src/src/aws_client.py). A boto3 client is the record  *)
(* of the service and the region it was created for and of the number of   *)
(* the boto3.client call that created it. What a call of boto3 or of Cost  *)
(* Explorer does is an input: it returns ("none") or raises the exception  *)
(* named.                                                                  *)

AWS_COST_EXPLORER_REGION == "us-east-1"

ClientObject(region_name, calls) ==
    [service |-> "ce", region_name |-> region_name, id |-> Len(calls) + 1]

Boto3Call(region_name, error) ==
    [service |-> "ce", region_name |-> region_name, raised |-> error]

\* A client is created on every access.
ClientEveryAccess(self_client, self_region, calls, created) ==
    IF created
    THEN [client  |-> ClientObject(self_region, calls),
          calls   |-> Append(calls, Boto3Call(self_region, "none")),
          stopped |-> FALSE]
    ELSE [client  |-> self_client,
          calls   |-> Append(calls,
                             Boto3Call(self_region, "NoCredentialsError")),
          stopped |-> TRUE]

\* The property client: what it leaves in _client and returns, the calls of
\* boto3.client after it, and whether st.stop() has ended the script.
client(self_client, self_region, calls, created) ==
    IF self_client = None
    THEN IF created
         THEN [client  |-> ClientObject(self_region, calls),
               calls   |-> Append(calls, Boto3Call(self_region, "none")),
               stopped |-> FALSE]
         ELSE [client  |-> None,
               calls   |-> Append(calls,
                                  Boto3Call(self_region,
                                            "NoCredentialsError")),
               stopped |-> TRUE]
    ELSE [client |-> self_client, calls |-> calls, stopped |-> FALSE]

\* What an access to the property is recorded as.
Access(a) ==
    IF a.stopped THEN [stopped |-> TRUE] ELSE [returned |-> a.client]

\* The credentials are taken to be valid whatever the call did.
ValidateCredentialsAlwaysTrue(api) == [raised |-> "none", returned |-> TRUE]

\* validate_credentials, given what client.get_cost_and_usage did
validate_credentials(api) ==
    IF api = "none" THEN [raised |-> "none", returned |-> TRUE]
    ELSE IF api \in {"ClientError", "NoCredentialsError"}
    THEN [raised |-> "none", returned |-> FALSE]
    ELSE [raised |-> api]

\* get_cost_and_usage, given what client.get_cost_and_usage did and the
\* report it returned if it returned
get_cost_and_usage(api, report) ==
    IF api = "none" THEN [raised |-> "none", returned |-> report]
    ELSE IF api = "ClientError" THEN [raised |-> "none", returned |-> <<>>]
    ELSE [raised |-> api]

\* A request sent to Cost Explorer through a client, and what became of it.
Request(operation, g, used, api, result) ==
    [operation |-> operation, Granularity |-> g, client |-> used,
     api |-> api, result |-> result]

-----------------------------------------------------------------------------
(* BillingDashboard (src/app.py) and its settings (src/config/settings.py) *)

MAX_DAYS_BACK == 365

TOP_SERVICES_COUNT == 10

GRANULARITY_LIMITS ==
    [HOURLY |-> 7, DAILY |-> 365, WEEKLY |-> 365, MONTHLY |-> 365]

\* GRANULARITY_LIMITS.get(selected_granularity, 365)
GranularityLimit(selected_granularity) ==
    IF selected_granularity \in DOMAIN GRANULARITY_LIMITS
    THEN GRANULARITY_LIMITS[selected_granularity]
    ELSE 365

\* _get_user_inputs: the options offered for a date range of so many days
granularity_options(days) ==
    IF days <= 2 THEN <<"HOURLY", "DAILY">>
    ELSE IF days <= 31 THEN <<"HOURLY", "DAILY", "MONTHLY">>
    ELSE IF days <= 93 THEN <<"DAILY", "WEEKLY", "MONTHLY">>
    ELSE <<"WEEKLY", "MONTHLY">>

\* Every option is asked of Cost Explorer as it is.
ActualGranularityIdentity(option) == option

\* _get_user_inputs: actual_granularity_map[option]
actual_granularity_map(option) ==
    IF option = "WEEKLY" THEN "DAILY" ELSE option

-----------------------------------------------------------------------------
(* The raw reports of the model: the absent, the empty and the foreign     *)
(* mapping, and the reports with 'ResultsByTime' of at most MaxNodes       *)
(* periods, groups, metric entries and malformed places (a missing field,  *)
(* an amount that is no number) in total.                                  *)

MetricNames == {"BlendedCost", "UnblendedCost"}

GoodAmount(name) ==
    IF name = "BlendedCost" THEN <<"1", "0", "0", ".", "5", "0">>
    ELSE <<"-", "3", ".", "2", "5">>

BadAmounts == {<<"a", "b", "c">>, <<"1", ",", "5">>}

KeyLists == {<<>>, <<"Amazon EC2-Instance">>, <<"Amazon S3", "us-east-1">>}

\* The entries for one metric name with f malformed places.
Entries(name, f) ==
    CASE f = 0 -> {[k |-> name, v |-> [Amount |-> GoodAmount(name), Unit |-> "USD"]]}
      [] f = 1 -> {[k |-> name, v |-> [Amount |-> a, Unit |-> "USD"]] : a \in BadAmounts}
                  \cup {[k |-> name, v |-> [Unit |-> "USD"]],
                        [k |-> name, v |-> [Amount |-> GoodAmount(name)]]}
      [] f = 2 -> {[k |-> name, v |-> [Amount |-> a]] : a \in BadAmounts}
                  \cup {[k |-> name, v |-> <<>>]}
      [] OTHER -> {}

RECURSIVE MetricMaps(_, _, _)
\* The metrics mappings of e entries named in avail with f malformed places.
MetricMaps(avail, e, f) ==
    IF e = 0 THEN (IF f = 0 THEN {<<>>} ELSE {})
    ELSE UNION {UNION {{<<x>> \o rest :
                           x \in Entries(n, fe),
                           rest \in MetricMaps(avail \ {n}, e - 1, f - fe)} :
                       fe \in 0..f} :
                n \in avail}

\* The groups of w nodes (the group and its entries) with f malformed places.
GroupsOf(w, f) ==
    {[Keys |-> k, Metrics |-> m] :
        k \in KeyLists, m \in MetricMaps(MetricNames, w - 1, f)}
    \cup {[Metrics |-> m] : m \in MetricMaps(MetricNames, w - 1, f - 1)}
    \cup (IF w = 1 /\ f = 1 THEN {[Keys |-> k] : k \in KeyLists} ELSE {})
    \cup (IF w = 1 /\ f = 2 THEN {<<>>} ELSE {})

\* The sets of sequences below are built level by level (a level holds the
\* sequences of w nodes, by their number f of malformed places, at index
\* f + 1), each level from the ones before it.
RECURSIVE EmptyLevel(_)
EmptyLevel(f) == IF f = 0 THEN <<{<<>>}>> ELSE Append(EmptyLevel(f - 1), {})

RECURSIVE GroupSeqLevel(_, _, _)
GroupSeqLevel(t, w, f) ==
    IF f < 0 THEN <<>>
    ELSE Append(GroupSeqLevel(t, w, f - 1),
                {x : x \in UNION {UNION {{<<g>> \o rest :
                                            g \in GroupsOf(k, fg),
                                            rest \in t[w - k + 1][f - fg + 1]} :
                                         fg \in 0..f} :
                                  k \in 1..w}})

RECURSIVE GroupSeqTable(_, _)
\* GroupSeqTable(w, size)[j + 1][f + 1]: the sequences of groups of j nodes
\* with f malformed places, for j <= w and j + f <= size.
GroupSeqTable(w, size) ==
    IF w = 0 THEN <<EmptyLevel(size)>>
    ELSE LET t == GroupSeqTable(w - 1, size)
         IN  Append(t, GroupSeqLevel(t, w, size - w))

TimePeriodShapes(f) ==
    CASE f = 0 -> {"ok"}
      [] f = 1 -> {"missing", "noStart", "noEnd"}
      [] f = 2 -> {"empty"}
      [] OTHER -> {}

\* The periods of w nodes with f malformed places, without their dates.
PeriodsOf(groupSeqs, w, f) ==
    UNION {{[tp |-> tp, body |-> b] :
               tp \in TimePeriodShapes(ft),
               b \in {[Total |-> m] :
                         m \in MetricMaps(MetricNames, w - 1, f - ft)}
                     \cup {[Groups |-> gs] : gs \in groupSeqs[w][f - ft + 1]}
                     \cup (IF w = 1 /\ f - ft = 1 THEN {<<>>} ELSE {})} :
           ft \in 0..f}

RECURSIVE PeriodSeqLevel(_, _, _, _)
PeriodSeqLevel(groupSeqs, t, w, f) ==
    IF f < 0 THEN <<>>
    ELSE Append(PeriodSeqLevel(groupSeqs, t, w, f - 1),
                {x : x \in UNION {UNION {{<<p>> \o rest :
                                            p \in PeriodsOf(groupSeqs, k, fp),
                                            rest \in t[w - k + 1][f - fp + 1]} :
                                         fp \in 0..f} :
                                  k \in 1..w}})

RECURSIVE PeriodSeqTable(_, _, _)
PeriodSeqTable(groupSeqs, w, size) ==
    IF w = 0 THEN <<EmptyLevel(size)>>
    ELSE LET t == PeriodSeqTable(groupSeqs, w - 1, size)
         IN  Append(t, PeriodSeqLevel(groupSeqs, t, w, size - w))

\* The sequences of periods of at most size nodes and malformed places.
PeriodSeqs(size) ==
    LET groupSeqs == GroupSeqTable(size, size)
        t         == PeriodSeqTable(groupSeqs, size, size)
    IN  UNION {UNION {t[w + 1][f + 1] : f \in 0..(size - w)} : w \in 0..size}

\* The i-th period of a report is the i-th month of 2024; End is exclusive.
TimePeriodOf(tp, i) ==
    CASE tp = "ok"      -> [TimePeriod |-> [Start |-> <<2024, i, 1>>,
                                            End   |-> <<2024, i + 1, 1>>]]
      [] tp = "noStart" -> [TimePeriod |-> [End |-> <<2024, i + 1, 1>>]]
      [] tp = "noEnd"   -> [TimePeriod |-> [Start |-> <<2024, i, 1>>]]
      [] tp = "empty"   -> [TimePeriod |-> <<>>]
      [] tp = "missing" -> <<>>

ResultsByTimeOf(ps) ==
    [i \in 1..Len(ps) |-> TimePeriodOf(ps[i].tp, i) @@ ps[i].body]

Responses(size) ==
    {None, <<>>, [ResponseMetadata |-> <<>>]}
    \cup {[ResultsByTime |-> ResultsByTimeOf(ps)] : ps \in PeriodSeqs(size)}

-----------------------------------------------------------------------------
(* The record sets handed directly to the aggregator: at most MaxRows rows *)
(* of two periods, two services and the 'Total' service.                   *)

RowPeriods ==
    {[StartDate |-> ToDatetime(<<2024, 1, 1>>), EndDate |-> ToDatetime(<<2024, 2, 1>>)],
     [StartDate |-> ToDatetime(<<2024, 2, 1>>), EndDate |-> ToDatetime(<<2024, 3, 1>>)]}

RowServices == {"Amazon EC2-Instance", "Amazon S3", "Total"}

RowAmounts == {0, 2575}

Row(p, s, m, a) ==
    [StartDate |-> p.StartDate, EndDate |-> p.EndDate, Service |-> s,
     MetricName |-> m, Amount |-> a, Unit |-> "USD"]

\* The rows of another metric are left alone by the aggregator whatever they
\* hold: two of them stand for all.
Rows ==
    {Row(p, s, "BlendedCost", a) :
        p \in RowPeriods, s \in RowServices, a \in RowAmounts}
    \cup {Row(p, "Amazon S3", "UsageQuantity", 2500) : p \in RowPeriods}

RecordSets(size) == UNION {[1..n -> Rows] : n \in 0..size}

-----------------------------------------------------------------------------
(* The record sets of the trend calls: at most MaxTrendRows rows of three  *)
(* monthly periods, the third after a gap of a month.                      *)

MaxTrendRows == 3

TrendPeriods ==
    {[StartDate |-> ToDatetime(<<2024, 1, 1>>), EndDate |-> ToDatetime(<<2024, 2, 1>>)],
     [StartDate |-> ToDatetime(<<2024, 2, 1>>), EndDate |-> ToDatetime(<<2024, 3, 1>>)],
     [StartDate |-> ToDatetime(<<2024, 4, 1>>), EndDate |-> ToDatetime(<<2024, 5, 1>>)]}

\* Per period: a service of amount zero or not, a second service, and a
\* 'Total' row that is a credit; one row of another metric.
TrendRows ==
    {Row(p, "Amazon EC2-Instance", "BlendedCost", a) :
        p \in TrendPeriods, a \in {0, 2575}}
    \cup {Row(p, "Amazon S3", "BlendedCost", 10050) : p \in TrendPeriods}
    \cup {Row(p, "Total", "BlendedCost", -325) : p \in TrendPeriods}
    \cup {[Row(p, "Amazon S3", "UsageQuantity", 2500) EXCEPT !.Unit = "Hrs"] :
             p \in {[StartDate |-> ToDatetime(<<2024, 1, 1>>),
                     EndDate   |-> ToDatetime(<<2024, 2, 1>>)]}}

TrendRecordSets(size) == UNION {[1..n -> TrendRows] : n \in 0..size}

\* The granularities the trend call is made with; "YEARLY" is none of the
\* four the code names.
Granularities == {"HOURLY", "DAILY", "WEEKLY", "MONTHLY", "YEARLY"}

-----------------------------------------------------------------------------
(* The record sets of the weekly call: at most MaxDailyRows rows of the    *)
(* nine days from Monday 2024-01-01 to Tuesday 2024-01-09.                 *)

MaxDailyRows == 3

FirstDay == ToDatetime(<<2024, 1, 1>>)

DaysSpan == 8

DailyPeriods ==
    {[StartDate |-> FirstDay + i, EndDate |-> FirstDay + i + 1] :
        i \in 0..DaysSpan}

DailyRows ==
    {Row(p, "Amazon EC2-Instance", "BlendedCost", 2575) : p \in DailyPeriods}
    \cup {Row(p, "Amazon S3", "BlendedCost", 10050) :
             p \in {q \in DailyPeriods : q.StartDate = FirstDay + 1}}
    \cup {[Row(p, "Amazon EC2-Instance", "UsageQuantity", 2500)
              EXCEPT !.Unit = "Hrs"] :
             p \in {q \in DailyPeriods : q.StartDate = FirstDay + 2}}

DailyRecordSets(size) == UNION {[1..n -> DailyRows] : n \in 0..size}

-----------------------------------------------------------------------------
(* The record sets handed to each of the calls in turn: at most            *)
(* MaxCallRows of the rows of the trend calls.                             *)

MaxCallRows == 2

-----------------------------------------------------------------------------
(* The daily record sets that are summarised and ranked before and after   *)
(* the weekly aggregation: at most MaxRebucketRows rows of Tuesday         *)
(* 2024-01-02, of the Wednesday after it and of the Tuesday a week later.  *)

MaxRebucketRows == 3

RebucketPeriods ==
    {[StartDate |-> FirstDay + i, EndDate |-> FirstDay + i + 1] :
        i \in {1, 2, 8}}

\* A service of one amount or its double, a second service of the double, a
\* 'Total' row that is a credit and a row of another metric.
RebucketRows ==
    {Row(p, "Amazon EC2-Instance", "BlendedCost", a) :
        p \in RebucketPeriods, a \in {2575, 5150}}
    \cup {Row(p, "Amazon S3", "BlendedCost", 5150) : p \in RebucketPeriods}
    \cup {Row(p, "Total", "BlendedCost", -325) :
             p \in {q \in RebucketPeriods : q.StartDate = FirstDay + 2}}
    \cup {[Row(p, "Amazon S3", "UsageQuantity", 2500) EXCEPT !.Unit = "Hrs"] :
             p \in {q \in RebucketPeriods : q.StartDate = FirstDay + 1}}

RebucketRecordSets(size) == UNION {[1..n -> RebucketRows] : n \in 0..size}

-----------------------------------------------------------------------------
(* The record sets of the seven-day scenario: one row of one service on    *)
(* each of seven consecutive days, the first of them any day of the week   *)
(* of Monday 2024-01-01, each amount one of two.                           *)

WeekDays == 0..6

RunAmounts == {2575, 10050}

SevenDayRun(first, amounts) ==
    [i \in 1..7 |->
        Row([StartDate |-> first + i - 1, EndDate |-> first + i],
            "Amazon EC2-Instance", "BlendedCost", amounts[i])]

SevenDayRuns ==
    {SevenDayRun(FirstDay + w, amounts) :
        w \in WeekDays, amounts \in [1..7 -> RunAmounts]}

-----------------------------------------------------------------------------
(* The inputs of the client and of the dashboard run.                      *)

\* At most this many accesses to the client property of one instance.
MaxClientCalls == 3

\* A report returned by Cost Explorer to the dashboard has at most this many
\* periods, groups and metric entries in total.
MaxReportNodes == 3

\* The regions an AWSBillingClient is constructed with: the default and one
\* passed as argument.
Regions == {AWS_COST_EXPLORER_REGION, "eu-west-1"}

\* What a call of Cost Explorer does: it returns, or raises one of the two
\* exceptions the client names or another one of botocore.
ApiRaises ==
    {"none", "ClientError", "NoCredentialsError", "EndpointConnectionError"}

\* The granularities get_cost_and_usage documents.
ApiGranularities == {"DAILY", "MONTHLY", "HOURLY"}

\* The report of the tests' mock client.
MockReport == [ResultsByTime |-> <<>>]

\* The lengths in days of the date range: none, and the lengths around the
\* limits that _get_user_inputs tests.
DaysDiffs == {0, 2, 7, 8, 31, 32, 93, 94, 365, 366}

-----------------------------------------------------------------------------
(* The reports of the two-period scenario: the services EC2 and S3 in      *)
(* January and February 2024, each amount one of four.                     *)

ScenarioAmounts ==
    {<<"1", "0", "0", ".", "5", "0">>, <<"1", "2", "0", ".", "0", "0">>,
     <<"2", "5", ".", "7", "5">>, <<"3", "0", ".", "2", "5">>}

ScenarioGroup(service, amount) ==
    [Keys    |-> <<service>>,
     Metrics |-> <<[k |-> "BlendedCost",
                    v |-> [Amount |-> amount, Unit |-> "USD"]]>>]

ScenarioPeriod(start, end, ec2, s3) ==
    [TimePeriod |-> [Start |-> start, End |-> end],
     Groups     |-> <<ScenarioGroup("Amazon EC2-Instance", ec2),
                      ScenarioGroup("Amazon S3", s3)>>]

ScenarioReports ==
    {[ResultsByTime |->
         <<ScenarioPeriod(<<2024, 1, 1>>, <<2024, 1, 31>>, a, b),
           ScenarioPeriod(<<2024, 2, 1>>, <<2024, 2, 29>>, c, d)>>] :
        a \in ScenarioAmounts, b \in ScenarioAmounts,
        c \in ScenarioAmounts, d \in ScenarioAmounts}

-----------------------------------------------------------------------------
(* The calls. *)

\* No granularity argument has been passed.
NoGranularity == ""

\* The trend and weekly calls have not been made.
LaterUnset ==
    /\ granularity = NoGranularity
    /\ trends = Unset
    /\ pivot_df = Unset
    /\ weekly_df = Unset

\* No AWSBillingClient has been constructed.
NoBillingClient ==
    /\ region = ""
    /\ _client = None
    /\ boto3_calls = <<>>
    /\ accesses = <<>>
    /\ requests = <<>>

\* No dashboard is running.
NoDashboard ==
    /\ days_diff = 0
    /\ display_granularity = ""
    /\ aws_granularity = ""
    /\ raw_data = Unset
    /\ weekly_calls = <<>>
    /\ shown = <<>>

\* The weekly DataFrame has not been used.
RebucketedUnset ==
    /\ reweekly_df = Unset
    /\ weekly_summary = Unset
    /\ weekly_ranking = Unset

FurtherUnset == RebucketedUnset /\ NoBillingClient /\ NoDashboard

\* df = processor.process_cost_and_usage_response(response)
ProcessCostAndUsageResponse ==
    /\ pc = "start"
    /\ LET r == process_cost_and_usage_response(response)
       IN  /\ raised' = r.raised
           /\ df' = IF r.raised = "none" THEN r.rows ELSE Unset
    /\ pc' = "processed"
    /\ UNCHANGED <<response, summary, ranking, top_n, later>>
    /\ UNCHANGED further

\* summary = processor.generate_cost_summary(df)
GenerateCostSummary ==
    /\ pc = "processed"
    /\ raised = "none"
    /\ summary' = generate_cost_summary(df)
    /\ pc' = "summarised"
    /\ UNCHANGED <<response, raised, df, ranking, top_n, later>>
    /\ UNCHANGED further

\* top_services = processor.get_top_services_by_cost(df, top_n=n)
GetTopServicesByCost(n) ==
    /\ pc = "summarised"
    /\ ranking' \in get_top_services_by_cost(df, n)
    /\ top_n' = n
    /\ pc' = "ranked"
    /\ UNCHANGED <<response, raised, df, summary, later>>
    /\ UNCHANGED further

\* trends = processor.calculate_cost_trends(df, g)
CalculateCostTrends(g) ==
    /\ pc \in {"processed", "summarised"}
    /\ raised = "none"
    /\ trends' = calculate_cost_trends(df, g)
    /\ granularity' = g
    /\ pc' = "trended"
    /\ UNCHANGED <<response, raised, df, summary, ranking, top_n,
                   pivot_df, weekly_df>>
    /\ UNCHANGED further

\* trends = processor.calculate_cost_trends(df): no granularity is passed.
CalculateCostTrendsDefault ==
    /\ pc \in {"processed", "summarised"}
    /\ raised = "none"
    /\ trends' = calculate_cost_trends(df, DefaultGranularity)
    /\ granularity' = NoGranularity
    /\ pc' = "trended"
    /\ UNCHANGED <<response, raised, df, summary, ranking, top_n,
                   pivot_df, weekly_df>>
    /\ UNCHANGED further

\* service_trends = processor.calculate_service_cost_trends(df)
CalculateServiceCostTrends ==
    /\ pc = "trended"
    /\ pivot_df' = calculate_service_cost_trends(df)
    /\ pc' = "pivoted"
    /\ UNCHANGED <<response, raised, df, summary, ranking, top_n,
                   granularity, trends, weekly_df>>
    /\ UNCHANGED further

\* df = self.data_processor.aggregate_to_weekly(df)
AggregateToWeekly ==
    /\ pc \in {"processed", "ranked"}
    /\ raised = "none"
    /\ weekly_df' = aggregate_to_weekly(df)
    /\ pc' = "weekly"
    /\ UNCHANGED <<response, raised, df, summary, ranking, top_n,
                   granularity, trends, pivot_df>>
    /\ UNCHANGED further

\* aggregate_to_weekly(weekly_df): the weekly DataFrame is aggregated again.
AggregateToWeeklyAgain ==
    /\ pc = "weekly"
    /\ reweekly_df' = aggregate_to_weekly(weekly_df)
    /\ pc' = "reweekly"
    /\ UNCHANGED <<response, raised, df, summary, ranking, top_n, later,
                   weekly_summary, weekly_ranking, billing_client, dashboard>>

\* summary = generate_cost_summary(df), after df = aggregate_to_weekly(df)
GenerateCostSummaryWeekly ==
    /\ pc = "weekly"
    /\ weekly_summary' = generate_cost_summary(weekly_df)
    /\ pc' = "weekly_summarised"
    /\ UNCHANGED <<response, raised, df, summary, ranking, top_n, later,
                   reweekly_df, weekly_ranking, billing_client, dashboard>>

\* top_services = get_top_services_by_cost(df, top_n), after
\* df = aggregate_to_weekly(df), with the top_n of the call on the daily rows
GetTopServicesByCostWeekly ==
    /\ pc = "weekly_summarised"
    /\ weekly_ranking' \in get_top_services_by_cost(weekly_df, top_n)
    /\ pc' = "weekly_ranked"
    /\ UNCHANGED <<response, raised, df, summary, ranking, top_n, later,
                   reweekly_df, weekly_summary, billing_client, dashboard>>

\* self.client: an access to the property
AccessClient(created) ==
    /\ pc = "constructed"
    /\ Len(accesses) < MaxClientCalls
    /\ LET a == client(_client, region, boto3_calls, created)
       IN  /\ _client' = a.client
           /\ boto3_calls' = a.calls
           /\ accesses' = Append(accesses, Access(a))
           /\ pc' = IF a.stopped THEN "stopped" ELSE pc
    /\ UNCHANGED <<response, raised, df, summary, ranking, top_n, later,
                   rebucketed, region, requests, dashboard>>

\* self.aws_client.validate_credentials()
ValidateCredentials(created, api) ==
    /\ pc = "constructed"
    /\ Len(accesses) < MaxClientCalls
    /\ LET a == client(_client, region, boto3_calls, created)
       IN  /\ _client' = a.client
           /\ boto3_calls' = a.calls
           /\ accesses' = Append(accesses, Access(a))
           /\ pc' = IF a.stopped THEN "stopped" ELSE pc
           /\ requests' =
                  IF a.stopped THEN requests
                  ELSE Append(requests,
                              Request("validate_credentials", "DAILY",
                                      a.client, api,
                                      validate_credentials(api)))
    /\ UNCHANGED <<response, raised, df, summary, ranking, top_n, later,
                   rebucketed, region, dashboard>>

\* self.aws_client.get_cost_and_usage(start_date, end_date, g)
GetCostAndUsage(created, g, api) ==
    /\ pc = "constructed"
    /\ Len(accesses) < MaxClientCalls
    /\ LET a == client(_client, region, boto3_calls, created)
       IN  /\ _client' = a.client
           /\ boto3_calls' = a.calls
           /\ accesses' = Append(accesses, Access(a))
           /\ pc' = IF a.stopped THEN "stopped" ELSE pc
           /\ requests' =
                  IF a.stopped THEN requests
                  ELSE Append(requests,
                              Request("get_cost_and_usage", g, a.client, api,
                                      get_cost_and_usage(api, MockReport)))
    /\ UNCHANGED <<response, raised, df, summary, ranking, top_n, later,
                   rebucketed, region, dashboard>>

\* run: if not self._validate_aws_connection(): return
ValidateAwsConnection(created, api) ==
    /\ pc = "run"
    /\ LET a == client(_client, region, boto3_calls, created)
           v == validate_credentials(api)
       IN  /\ _client' = a.client
           /\ boto3_calls' = a.calls
           /\ accesses' = Append(accesses, Access(a))
           /\ IF a.stopped
              THEN /\ requests' = requests
                   /\ raised' = raised
                   /\ shown' = Append(shown,
                                      "error: AWS credentials not found")
                   /\ pc' = "stopped"
              ELSE /\ requests' =
                          Append(requests,
                                 Request("validate_credentials", "DAILY",
                                         a.client, api, v))
                   /\ IF v.raised # "none"
                      THEN /\ raised' = v.raised
                           /\ shown' = shown
                           /\ pc' = "raised"
                      ELSE /\ raised' = raised
                           /\ shown' =
                                  Append(shown,
                                         IF v.returned
                                         THEN "success: AWS connection successful"
                                         ELSE "error: AWS Connection Failed")
                           /\ pc' = IF v.returned THEN "validated"
                                    ELSE "returned"
    /\ UNCHANGED <<response, df, summary, ranking, top_n, later, rebucketed,
                   region, days_diff, display_granularity, aws_granularity,
                   raw_data, weekly_calls>>

\* run: date_range, aws_granularity, display_granularity =
\*          self._get_user_inputs()
\* for a date range of so many days and the granularity selected
GetUserInputs(days, selected_granularity) ==
    /\ pc = "validated"
    /\ days_diff' = days
    /\ IF days <= 0
       THEN /\ shown' = Append(shown,
                               "error: Start date must be before end date")
            /\ pc' = "stopped"
            /\ UNCHANGED <<display_granularity, aws_granularity>>
       ELSE IF days > MAX_DAYS_BACK
       THEN /\ shown' = Append(shown, "error: Date range cannot exceed")
            /\ pc' = "stopped"
            /\ UNCHANGED <<display_granularity, aws_granularity>>
       ELSE /\ \E i \in 1..Len(granularity_options(days)) :
                   granularity_options(days)[i] = selected_granularity
            /\ display_granularity' = selected_granularity
            /\ aws_granularity' = actual_granularity_map(selected_granularity)
            /\ IF days > GranularityLimit(selected_granularity)
               THEN /\ shown' = Append(shown,
                                       "error: granularity supports maximum")
                    /\ pc' = "stopped"
               ELSE /\ shown' = Append(shown, "info: Selected Period")
                    /\ pc' = "inputs"
    /\ UNCHANGED <<response, raised, df, summary, ranking, top_n, later,
                   rebucketed, billing_client, raw_data, weekly_calls>>

\* run: raw_data = self._load_billing_data(date_range, aws_granularity)
\* The result is taken from the cache of st.cache_data, which holds what an
\* earlier call with these arguments returned, or get_cost_by_service is
\* called.
LoadBillingData(cached, created, api, report) ==
    /\ pc = "inputs"
    /\ IF cached
       THEN /\ api \in {"none", "ClientError"}
            /\ raw_data' = get_cost_and_usage(api, report).returned
            /\ pc' = "loaded"
            /\ UNCHANGED <<raised, shown, billing_client>>
       ELSE LET a == client(_client, region, boto3_calls, created)
                r == get_cost_and_usage(api, report)
            IN  /\ _client' = a.client
                /\ boto3_calls' = a.calls
                /\ accesses' = Append(accesses, Access(a))
                /\ region' = region
                /\ IF a.stopped
                   THEN /\ requests' = requests
                        /\ shown' = Append(shown,
                                           "error: AWS credentials not found")
                        /\ pc' = "stopped"
                        /\ UNCHANGED <<raised, raw_data>>
                   ELSE /\ requests' =
                               Append(requests,
                                      Request("get_cost_and_usage",
                                              aws_granularity, a.client, api,
                                              r))
                        /\ IF r.raised # "none"
                           THEN /\ raised' = r.raised
                                /\ pc' = "raised"
                                /\ UNCHANGED <<raw_data, shown>>
                           ELSE /\ raw_data' = r.returned
                                /\ shown' =
                                       IF api = "ClientError"
                                       THEN Append(shown,
                                                   "error: Failed to retrieve cost data")
                                       ELSE shown
                                /\ pc' = "loaded"
                                /\ raised' = raised
    /\ UNCHANGED <<response, df, summary, ranking, top_n, later, rebucketed,
                   days_diff, display_granularity, aws_granularity,
                   weekly_calls>>

\* run: if not raw_data: ... return
\*      df = self.data_processor.process_cost_and_usage_response(raw_data)
\*      if df.empty: ... return
ProcessData ==
    /\ pc = "loaded"
    /\ IF Falsy(raw_data)
       THEN /\ shown' = Append(shown, "error: No billing data found")
            /\ pc' = "returned"
            /\ UNCHANGED <<raised, df>>
       ELSE LET r == process_cost_and_usage_response(raw_data)
            IN  IF r.raised # "none"
                THEN /\ raised' = r.raised
                     /\ pc' = "raised"
                     /\ UNCHANGED <<df, shown>>
                ELSE IF r.rows = <<>>
                THEN /\ df' = r.rows
                     /\ shown' = Append(shown,
                                        "warning: No cost data available")
                     /\ pc' = "returned"
                     /\ raised' = raised
                ELSE /\ df' = r.rows
                     /\ pc' = "normalized"
                     /\ UNCHANGED <<raised, shown>>
    /\ UNCHANGED <<response, summary, ranking, top_n, later, rebucketed,
                   billing_client, days_diff, display_granularity,
                   aws_granularity, raw_data, weekly_calls>>

\* run: if display_granularity == "WEEKLY":
\*          df = self.data_processor.aggregate_to_weekly(df)
\*      self._render_dashboard(df, display_granularity)
RenderDashboard ==
    /\ pc = "normalized"
    /\ LET rows == IF display_granularity = "WEEKLY"
                   THEN aggregate_to_weekly(df) ELSE df
       IN  /\ df' = rows
           /\ weekly_df' = IF display_granularity = "WEEKLY"
                           THEN rows ELSE weekly_df
           /\ weekly_calls' = IF display_granularity = "WEEKLY"
                              THEN Append(weekly_calls, aws_granularity)
                              ELSE weekly_calls
           /\ summary' = generate_cost_summary(rows)
           /\ trends' = calculate_cost_trends(rows, display_granularity)
           /\ granularity' = display_granularity
           /\ ranking' \in get_top_services_by_cost(rows, TOP_SERVICES_COUNT)
           /\ top_n' = TOP_SERVICES_COUNT
           /\ pivot_df' = calculate_service_cost_trends(rows)
    /\ shown' = Append(shown, "dashboard")
    /\ pc' = "rendered"
    /\ UNCHANGED <<response, raised, rebucketed, billing_client, days_diff,
                   display_granularity, aws_granularity, raw_data>>

\* A raw report is normalized, then summarised and ranked.
Init ==
    /\ response \in Responses(MaxNodes)
    /\ pc = "start"
    /\ raised = "none"
    /\ df = Unset
    /\ summary = Unset
    /\ ranking = Unset
    /\ top_n = 0
    /\ LaterUnset
    /\ FurtherUnset

Next ==
    \/ ProcessCostAndUsageResponse
    \/ GenerateCostSummary
    \/ \E n \in 0..MaxTopN : GetTopServicesByCost(n)

Spec == Init /\ [][Next]_vars

\* A record set is summarised and ranked.
InitAggregate ==
    /\ response = Unset
    /\ pc = "processed"
    /\ raised = "none"
    /\ df \in RecordSets(MaxRows)
    /\ summary = Unset
    /\ ranking = Unset
    /\ top_n = 0
    /\ LaterUnset
    /\ FurtherUnset

NextAggregate ==
    \/ GenerateCostSummary
    \/ \E n \in 0..MaxTopN : GetTopServicesByCost(n)

SpecAggregate == InitAggregate /\ [][NextAggregate]_vars

\* The trends of a record set are calculated, overall and per service.
InitTrends ==
    /\ response = Unset
    /\ pc = "processed"
    /\ raised = "none"
    /\ df \in TrendRecordSets(MaxTrendRows)
    /\ summary = Unset
    /\ ranking = Unset
    /\ top_n = 0
    /\ LaterUnset
    /\ FurtherUnset

NextTrends ==
    \/ \E g \in Granularities : CalculateCostTrends(g)
    \/ CalculateCostTrendsDefault
    \/ CalculateServiceCostTrends

SpecTrends == InitTrends /\ [][NextTrends]_vars

\* A record set of daily rows is aggregated to weeks.
InitWeekly ==
    /\ response = Unset
    /\ pc = "processed"
    /\ raised = "none"
    /\ df \in DailyRecordSets(MaxDailyRows)
    /\ summary = Unset
    /\ ranking = Unset
    /\ top_n = 0
    /\ LaterUnset
    /\ FurtherUnset

NextWeekly ==
    \/ AggregateToWeekly
    \/ AggregateToWeeklyAgain

SpecWeekly == InitWeekly /\ [][NextWeekly]_vars

\* The seven daily rows of a service are aggregated to weeks.
InitSevenDays ==
    /\ response = Unset
    /\ pc = "processed"
    /\ raised = "none"
    /\ df \in SevenDayRuns
    /\ summary = Unset
    /\ ranking = Unset
    /\ top_n = 0
    /\ LaterUnset
    /\ FurtherUnset

NextSevenDays == AggregateToWeekly

SpecSevenDays == InitSevenDays /\ [][NextSevenDays]_vars

\* Each of the calls is made on a record set.
InitCalls ==
    /\ response = Unset
    /\ pc = "processed"
    /\ raised = "none"
    /\ df \in TrendRecordSets(MaxCallRows)
    /\ summary = Unset
    /\ ranking = Unset
    /\ top_n = 0
    /\ LaterUnset
    /\ FurtherUnset

NextCalls ==
    \/ GenerateCostSummary
    \/ \E n \in 0..MaxTopN : GetTopServicesByCost(n)
    \/ \E g \in Granularities : CalculateCostTrends(g)
    \/ CalculateCostTrendsDefault
    \/ CalculateServiceCostTrends
    \/ AggregateToWeekly

SpecCalls == InitCalls /\ [][NextCalls]_vars

\* A daily record set is summarised and ranked, aggregated to weeks, and
\* summarised and ranked again.
InitRebucket ==
    /\ response = Unset
    /\ pc = "processed"
    /\ raised = "none"
    /\ df \in RebucketRecordSets(MaxRebucketRows)
    /\ summary = Unset
    /\ ranking = Unset
    /\ top_n = 0
    /\ LaterUnset
    /\ FurtherUnset

NextRebucket ==
    \/ GenerateCostSummary
    \/ \E n \in 0..MaxTopN : GetTopServicesByCost(n)
    \/ AggregateToWeekly
    \/ GenerateCostSummaryWeekly
    \/ GetTopServicesByCostWeekly

SpecRebucket == InitRebucket /\ [][NextRebucket]_vars

\* An AWSBillingClient has been constructed; its property is accessed and
\* its methods are called.
InitClient ==
    /\ response = Unset
    /\ pc = "constructed"
    /\ raised = "none"
    /\ df = Unset
    /\ summary = Unset
    /\ ranking = Unset
    /\ top_n = 0
    /\ LaterUnset
    /\ RebucketedUnset
    /\ region \in Regions
    /\ _client = None
    /\ boto3_calls = <<>>
    /\ accesses = <<>>
    /\ requests = <<>>
    /\ NoDashboard

NextClient ==
    \/ \E created \in BOOLEAN : AccessClient(created)
    \/ \E created \in BOOLEAN, api \in ApiRaises :
           ValidateCredentials(created, api)
    \/ \E created \in BOOLEAN, g \in ApiGranularities, api \in ApiRaises :
           GetCostAndUsage(created, g, api)

SpecClient == InitClient /\ [][NextClient]_vars

\* A BillingDashboard has been constructed, with its AWSBillingClient(), and
\* run is called.
InitDashboard ==
    /\ response = Unset
    /\ pc = "run"
    /\ raised = "none"
    /\ df = Unset
    /\ summary = Unset
    /\ ranking = Unset
    /\ top_n = 0
    /\ LaterUnset
    /\ RebucketedUnset
    /\ region = AWS_COST_EXPLORER_REGION
    /\ _client = None
    /\ boto3_calls = <<>>
    /\ accesses = <<>>
    /\ requests = <<>>
    /\ NoDashboard

NextDashboard ==
    \/ \E created \in BOOLEAN, api \in ApiRaises :
           ValidateAwsConnection(created, api)
    \/ \E days \in DaysDiffs, selected \in Granularities :
           GetUserInputs(days, selected)
    \/ /\ pc = "inputs"
       /\ \E report \in Responses(MaxReportNodes), cached \in BOOLEAN,
             created \in BOOLEAN, api \in ApiRaises :
              LoadBillingData(cached, created, api, report)
    \/ ProcessData
    \/ RenderDashboard

SpecDashboard == InitDashboard /\ [][NextDashboard]_vars

\* A report of the scenario is normalized and summarised, and its trends
\* calculated.
InitScenario ==
    /\ response \in ScenarioReports
    /\ pc = "start"
    /\ raised = "none"
    /\ df = Unset
    /\ summary = Unset
    /\ ranking = Unset
    /\ top_n = 0
    /\ LaterUnset
    /\ FurtherUnset

NextScenario ==
    \/ ProcessCostAndUsageResponse
    \/ GenerateCostSummary
    \/ \E g \in Granularities : CalculateCostTrends(g)
    \/ CalculateCostTrendsDefault

SpecScenario == InitScenario /\ [][NextScenario]_vars

-----------------------------------------------------------------------------
(* What the claims speak of, stated on the raw report and on the record    *)
(* set themselves.                                                         *)

HasResults(r) == r # None /\ "ResultsByTime" \in DOMAIN r

EntriesComplete(m) ==
    \A i \in 1..Len(m) : {"Amount", "Unit"} \subseteq DOMAIN m[i].v

GroupComplete(g) ==
    /\ {"Keys", "Metrics"} \subseteq DOMAIN g
    /\ EntriesComplete(g.Metrics)

PeriodComplete(p) ==
    /\ "TimePeriod" \in DOMAIN p
    /\ {"Start", "End"} \subseteq DOMAIN p.TimePeriod
    /\ IF "Groups" \in DOMAIN p
       THEN \A i \in 1..Len(p.Groups) : GroupComplete(p.Groups[i])
       ELSE "Total" \in DOMAIN p /\ EntriesComplete(p.Total)

\* No period, group or metric of the report lacks a required field.
StructurallyComplete(r) ==
    \A i \in 1..Len(r.ResultsByTime) : PeriodComplete(r.ResultsByTime[i])

\* The metrics mappings present in a period.
MappingsOf(p) ==
    IF "Groups" \in DOMAIN p
    THEN {p.Groups[i].Metrics :
             i \in {j \in 1..Len(p.Groups) : "Metrics" \in DOMAIN p.Groups[j]}}
    ELSE IF "Total" \in DOMAIN p THEN {p.Total} ELSE {}

\* The amount fields present anywhere in the report.
AmountFields(r) ==
    UNION {UNION {{m[i].v.Amount :
                      i \in {j \in 1..Len(m) : "Amount" \in DOMAIN m[j].v}} :
                  m \in MappingsOf(r.ResultsByTime[k])} :
           k \in 1..Len(r.ResultsByTime)}

\* Some amount field of the report is no number.
SomeAmountNotNumeric(r) == AmountFields(r) \cap BadAmounts # {}

ValidReport(r) ==
    HasResults(r) /\ StructurallyComplete(r) /\ ~SomeAmountNotNumeric(r)

RECURSIVE MetricCountOfGroups(_)
MetricCountOfGroups(groups) ==
    IF groups = <<>> THEN 0
    ELSE Len(Head(groups).Metrics) + MetricCountOfGroups(Tail(groups))

RECURSIVE RecordCount(_)
\* The sum over the periods of the metric counts of the period's groups, or
\* of the metric count of its Total.
RecordCount(results) ==
    IF results = <<>> THEN 0
    ELSE (IF "Groups" \in DOMAIN Head(results)
          THEN MetricCountOfGroups(Head(results).Groups)
          ELSE Len(Head(results).Total))
         + RecordCount(Tail(results))

Repeat(x, n) == [i \in 1..n |-> x]

RECURSIVE ServicesOfGroups(_)
ServicesOfGroups(groups) ==
    IF groups = <<>> THEN <<>>
    ELSE Repeat(IF Len(Head(groups).Keys) = 0 THEN "Total"
                ELSE Head(Head(groups).Keys),
                Len(Head(groups).Metrics))
         \o ServicesOfGroups(Tail(groups))

RECURSIVE ServicesOfReport(_)
\* The Service each record of a valid report must carry, record by record.
ServicesOfReport(results) ==
    IF results = <<>> THEN <<>>
    ELSE (IF "Groups" \in DOMAIN Head(results)
          THEN ServicesOfGroups(Head(results).Groups)
          ELSE Repeat("Total", Len(Head(results).Total)))
         \o ServicesOfReport(Tail(results))

\* A report made of a single ungrouped period with one metric.
SingleUngroupedPeriod(r) ==
    /\ HasResults(r)
    /\ Len(r.ResultsByTime) = 1
    /\ "Groups" \notin DOMAIN r.ResultsByTime[1]
    /\ "Total" \in DOMAIN r.ResultsByTime[1]
    /\ Len(r.ResultsByTime[1].Total) = 1

Normalized == pc # "start"
Summarised == pc \in {"summarised", "ranked"}
Ranked     == pc = "ranked"

BlendedIdx(rows) == {i \in 1..Len(rows) : rows[i].MetricName = "BlendedCost"}

ServiceIdx(rows) == {i \in BlendedIdx(rows) : rows[i].Service # "Total"}

RECURSIVE AmountOver(_, _)
\* The sum of Amount over the rows with the given indices.
AmountOver(rows, I) ==
    IF I = {} THEN 0
    ELSE LET i == CHOOSE j \in I : TRUE
         IN  rows[i].Amount + AmountOver(rows, I \ {i})

\* The distinct non-'Total' services that have a 'BlendedCost' record.
ServicesIn(rows) == {rows[i].Service : i \in ServiceIdx(rows)}

\* The summed 'BlendedCost' amount of a service.
CostOf(rows, s) ==
    AmountOver(rows, {i \in ServiceIdx(rows) : rows[i].Service = s})

\* The index at which a service is first seen in the record set.
FirstIndex(rows, s) ==
    CHOOSE i \in 1..Len(rows) :
        /\ rows[i].Service = s
        /\ \A j \in 1..(i - 1) : rows[j].Service # s

-----------------------------------------------------------------------------
(* The claims. *)

\* C1: for every valid raw report (it has 'ResultsByTime', no period, group
\* or metric lacks a field, and every amount is a number), the normalizer
\* returns as many records as the sum over the periods of the metric counts
\* of the period's groups, or of the metric count of 'Total' for an ungrouped
\* period.
C1_RecordCount ==
    (Normalized /\ ValidReport(response))
        => /\ raised = "none"
           /\ Len(df) = RecordCount(response.ResultsByTime)

\* A report of a grouped and an ungrouped period has been normalized into
\* two records or more.
C1_Witness ==
    /\ pc = "processed"
    /\ ValidReport(response)
    /\ Len(response.ResultsByTime) = 2
    /\ \E i \in 1..2 : /\ "Groups" \in DOMAIN response.ResultsByTime[i]
                       /\ Len(response.ResultsByTime[i].Groups) >= 1
    /\ \E i \in 1..2 : "Total" \in DOMAIN response.ResultsByTime[i]
    /\ raised = "none"
    /\ Len(df) >= 2

\* C2: every record of a group carries as Service the first key of the
\* group, or 'Total' when the group has no key, and every record of an
\* ungrouped period carries 'Total'; a report of a single ungrouped period
\* with one metric gives exactly one record, of Service 'Total', and an empty
\* ranking of top services.
C2_ServiceOfRecords ==
    (Normalized /\ HasResults(response) /\ raised = "none")
        => /\ [i \in 1..Len(df) |-> df[i].Service]
                = ServicesOfReport(response.ResultsByTime)
           /\ SingleUngroupedPeriod(response)
                => /\ Len(df) = 1
                   /\ df[1].Service = "Total"
                   /\ Ranked => ranking = EmptyDataFrame

\* The single ungrouped period has been normalized, and ranked with a
\* positive top_n.
C2_Witness ==
    /\ Ranked
    /\ SingleUngroupedPeriod(response)
    /\ top_n > 0
    /\ Len(df) = 1
    /\ df[1].MetricName = "BlendedCost"

\* C3: when some amount field of the report is no number, the normalizer
\* raises: it returns no record set, so none with the amount coerced to zero,
\* none without the offending record and no partial one.
C3_BadAmountRaises ==
    (Normalized /\ HasResults(response) /\ SomeAmountNotNumeric(response))
        => /\ raised \in {"ValueError", "KeyError"}
           /\ df = Unset

\* The second period of a report holds the bad amount, after a first period
\* that gave records; float raised ValueError.
C3_Witness ==
    /\ pc = "processed"
    /\ HasResults(response)
    /\ Len(response.ResultsByTime) = 2
    /\ PeriodComplete(response.ResultsByTime[1])
    /\ RecordCount(SubSeq(response.ResultsByTime, 1, 1)) > 0
    /\ SomeAmountNotNumeric(response)
    /\ raised = "ValueError"

\* C4 as claimed: a report with 'ResultsByTime' in which a period, group or
\* metric lacks a required field gives an empty record set, without raising.
C4_MalformedGivesEmpty ==
    (Normalized /\ HasResults(response) /\ ~StructurallyComplete(response))
        => /\ raised = "none"
           /\ df = EmptyDataFrame

\* C4, amended: for such a report the normalizer raises (KeyError for the
\* missing field, or ValueError when an amount that is no number is met
\* before it), so it returns no record set at all, neither an empty one nor
\* the records of the well-formed entries.
C4_MalformedRaises ==
    (Normalized /\ HasResults(response) /\ ~StructurallyComplete(response))
        => /\ raised \in {"KeyError", "ValueError"}
           /\ SomeAmountNotNumeric(response) \/ raised = "KeyError"
           /\ df = Unset

\* The second period of a report lacks a field, after a first period that
\* gave records; the lookup raised KeyError.
C4_Witness ==
    /\ pc = "processed"
    /\ HasResults(response)
    /\ Len(response.ResultsByTime) = 2
    /\ PeriodComplete(response.ResultsByTime[1])
    /\ RecordCount(SubSeq(response.ResultsByTime, 1, 1)) > 0
    /\ ~PeriodComplete(response.ResultsByTime[2])
    /\ raised = "KeyError"

\* C5: the normalizer returns an empty record set, without raising, for the
\* absent report (None), the empty mapping, a mapping without
\* 'ResultsByTime', and a report whose 'ResultsByTime' holds no period.
C5_NoReportGivesEmpty ==
    (/\ Normalized
     /\ \/ response = None
        \/ DOMAIN response = {}
        \/ "ResultsByTime" \notin DOMAIN response
        \/ response.ResultsByTime = <<>>)
        => /\ raised = "none"
           /\ df = EmptyDataFrame

\* A non-empty mapping without 'ResultsByTime' has been normalized.
C5_Witness ==
    /\ pc = "processed"
    /\ response # None
    /\ DOMAIN response # {}
    /\ "ResultsByTime" \notin DOMAIN response
    /\ df = EmptyDataFrame

\* C6: the summary's total_cost is the sum of Amount over all 'BlendedCost'
\* records, those of Service 'Total' included, while every amount of the
\* ranking of top services is the sum over the 'BlendedCost' records of one
\* service that is not 'Total'.
C6_TotalCostAndRankingSums ==
    /\ Summarised => summary.total_cost = AmountOver(df, BlendedIdx(df))
    /\ Ranked => \A i \in 1..Len(ranking) :
                    /\ ranking[i].Service \in ServicesIn(df)
                    /\ ranking[i].Amount = CostOf(df, ranking[i].Service)

\* A record set with a 'Total' row of positive amount has been summarised
\* and ranked: the total cost exceeds the sum of the whole ranking.
C6_Witness ==
    /\ Ranked
    /\ \E i \in BlendedIdx(df) : df[i].Service = "Total" /\ df[i].Amount > 0
    /\ Len(ranking) = Cardinality(ServicesIn(df))
    /\ Len(ranking) >= 1
    /\ summary.total_cost
          > SumSeq([i \in 1..Len(ranking) |-> ranking[i].Amount])

\* C7: service_count is the number of distinct services other than 'Total'
\* among the 'BlendedCost' records, time_periods the number of their distinct
\* StartDate values, top_service a service other than 'Total' of greatest
\* summed amount and top_service_cost that amount; top_service is 'N/A' with
\* top_service_cost 0 exactly when there is no such service.
C7_SummaryFields ==
    Summarised
        => /\ summary.service_count = Cardinality(ServicesIn(df))
           /\ summary.time_periods
                 = Cardinality({df[i].StartDate : i \in BlendedIdx(df)})
           /\ IF ServicesIn(df) = {}
              THEN summary.top_service = "N/A" /\ summary.top_service_cost = 0
              ELSE /\ summary.top_service \in ServicesIn(df)
                   /\ summary.top_service_cost = CostOf(df, summary.top_service)
                   /\ \A s \in ServicesIn(df) :
                          CostOf(df, s) <= summary.top_service_cost
                   /\ summary.top_service # "N/A"

\* Two services of different summed amounts over two periods have been
\* summarised; the one of the greater amount comes second in the grouping.
C7_Witness ==
    /\ Summarised
    /\ summary.service_count = 2
    /\ summary.time_periods = 2
    /\ summary.top_service = "Amazon S3"
    /\ CostOf(df, "Amazon S3") > CostOf(df, "Amazon EC2-Instance")

\* C8: for the empty record set and for a record set without a
\* 'BlendedCost' record, the summary is the default one: total_cost 0,
\* service_count 0, time_periods 0, top_service 'N/A', top_service_cost 0,
\* all five fields present.
C8_DefaultSummary ==
    (Summarised /\ BlendedIdx(df) = {})
        => /\ DOMAIN summary = {"total_cost", "service_count", "time_periods",
                                "top_service", "top_service_cost"}
           /\ summary.total_cost = 0
           /\ summary.service_count = 0
           /\ summary.time_periods = 0
           /\ summary.top_service = "N/A"
           /\ summary.top_service_cost = 0

\* A non-empty record set without a 'BlendedCost' record has been summarised.
C8_Witness ==
    /\ Summarised
    /\ Len(df) >= 1
    /\ BlendedIdx(df) = {}
    /\ summary.top_service = "N/A"

\* C9: the ranking of top services for top_n >= 0 holds one entry per
\* service, with the summed 'BlendedCost' amount of the service, in
\* descending order of amount, and its length is the lesser of top_n and the
\* number of distinct services other than 'Total' with a 'BlendedCost'
\* record.
C9_Ranking ==
    Ranked
        => /\ Len(ranking) = Min(top_n, Cardinality(ServicesIn(df)))
           /\ \A i, j \in 1..Len(ranking) :
                  i # j => ranking[i].Service # ranking[j].Service
           /\ \A i \in 1..Len(ranking) :
                  /\ ranking[i].Service \in ServicesIn(df)
                  /\ ranking[i].Amount = CostOf(df, ranking[i].Service)
           /\ \A i \in 1..(Len(ranking) - 1) :
                  ranking[i].Amount >= ranking[i + 1].Amount
           /\ \A i \in 1..Len(ranking) :
                  \A s \in ServicesIn(df) :
                      CostOf(df, s) > ranking[i].Amount
                          => \E j \in 1..(i - 1) : ranking[j].Service = s

\* Two services have been ranked with top_n = 1: the ranking is cut to the
\* one of the greater amount.
C9_Witness ==
    /\ Ranked
    /\ top_n = 1
    /\ Cardinality(ServicesIn(df)) = 2
    /\ Len(ranking) = 1
    /\ \E s \in ServicesIn(df) : CostOf(df, s) < ranking[1].Amount

\* C10 as claimed: two services of equal summed amount stand in the ranking
\* in the order in which they are first seen in the record set.
C10_TiesInFirstSeenOrder ==
    Ranked
        => \A i, j \in 1..Len(ranking) :
               (i < j /\ ranking[i].Amount = ranking[j].Amount)
                   => FirstIndex(df, ranking[i].Service)
                          < FirstIndex(df, ranking[j].Service)

\* C10, amended: the order of two services of equal summed amount does not
\* depend on the order of the records: a ranking returned for a record set is
\* one that can be returned for the same records in any other order.
C10_TiesIndependentOfRecordOrder ==
    Ranked
        => \A other \in Arrangements(df) :
               ranking \in get_top_services_by_cost(other, top_n)

\* Two services of equal summed amount have been ranked, and the one seen
\* second in the record set comes first.
C10_Witness ==
    /\ Ranked
    /\ Len(ranking) = 2
    /\ ranking[1].Amount = ranking[2].Amount
    /\ ranking[1].Amount > 0
    /\ FirstIndex(df, ranking[1].Service) > FirstIndex(df, ranking[2].Service)

Trended == pc \in {"trended", "pivoted"}
Pivoted == pc = "pivoted"

\* The sum of Amount over the 'BlendedCost' records of a StartDate and a
\* service other than 'Total'.
CellSum(rows, d, s) ==
    AmountOver(rows, {i \in ServiceIdx(rows) :
                         rows[i].StartDate = d /\ rows[i].Service = s})

\* The service columns of a row of the table.
ServiceColumns(row) == DOMAIN row \ {"StartDate"}

\* C11 as claimed: every cell (StartDate, service) of the table of service
\* cost trends is the sum of Amount over the 'BlendedCost' records of that
\* StartDate and that service, also when several records share the pair.
C11_CellsAreSums ==
    Pivoted
        => \A i \in 1..Len(pivot_df) :
               \A s \in ServiceColumns(pivot_df[i]) :
                   pivot_df[i][s]
                       = Divide(CellSum(df, pivot_df[i].StartDate, s), 1)

\* C12: the table of service cost trends has one row per distinct StartDate
\* and one column per distinct service of the 'BlendedCost' records that are
\* not of 'Total', its rows are in ascending order of StartDate, it has no
\* 'Total' column, and a cell without a record holds 0.
C12_TableShape ==
    Pivoted
        => LET dates == {df[i].StartDate : i \in ServiceIdx(df)}
           IN  /\ Len(pivot_df) = Cardinality(dates)
               /\ {pivot_df[i].StartDate : i \in 1..Len(pivot_df)} = dates
               /\ \A i \in 1..(Len(pivot_df) - 1) :
                      pivot_df[i].StartDate < pivot_df[i + 1].StartDate
               /\ \A i \in 1..Len(pivot_df) :
                      /\ ServiceColumns(pivot_df[i]) = ServicesIn(df)
                      /\ "Total" \notin DOMAIN pivot_df[i]
                      /\ \A s \in ServicesIn(df) :
                             (~\E j \in ServiceIdx(df) :
                                  /\ df[j].StartDate = pivot_df[i].StartDate
                                  /\ df[j].Service = s)
                                 => pivot_df[i][s] = Divide(0, 1)

\* A record set given latest period first, with a 'Total' row, has been
\* pivoted into two rows and two columns, one cell of which has no record.
C12_Witness ==
    /\ Pivoted
    /\ Len(df) = 3
    /\ df[1].StartDate > df[2].StartDate
    /\ \E i \in BlendedIdx(df) : df[i].Service = "Total"
    /\ Len(pivot_df) = 2
    /\ Cardinality(ServicesIn(df)) = 2
    /\ \E i \in 1..2 : \E s \in ServicesIn(df) :
           /\ pivot_df[i][s] = Divide(0, 1)
           /\ ~\E j \in ServiceIdx(df) :
                  df[j].StartDate = pivot_df[i].StartDate /\ df[j].Service = s

\* The StartDate values of the 'BlendedCost' records: the entries of the
\* per-period series.
PeriodDates(rows) == {rows[i].StartDate : i \in BlendedIdx(rows)}

\* The sum of the 'BlendedCost' amounts of a StartDate.
PeriodSum(rows, d) ==
    AmountOver(rows, {i \in BlendedIdx(rows) : rows[i].StartDate = d})

LatestDate(D) == CHOOSE d \in D : \A e \in D : e <= d

\* The sums of the latest and of the second latest period.
CurrentSum(rows) == PeriodSum(rows, LatestDate(PeriodDates(rows)))

PreviousSum(rows) ==
    LET D == PeriodDates(rows)
    IN  PeriodSum(rows, LatestDate(D \ {LatestDate(D)}))

TwoPeriods(rows) == Cardinality(PeriodDates(rows)) >= 2

ChangeAmountNames ==
    {"hour_over_hour_change_amount", "day_over_day_change_amount",
     "week_over_week_change_amount", "month_over_month_change_amount",
     "mom_change_amount", "period_change_amount"}

ChangePercentNames ==
    {"hour_over_hour_change_percent", "day_over_day_change_percent",
     "week_over_week_change_percent", "month_over_month_change_percent",
     "mom_change_percent", "period_change_percent"}

\* The change fields named after a granularity.
ChangeNamesOf(g) ==
    CASE g = "HOURLY"  -> {"hour_over_hour_change_percent",
                           "hour_over_hour_change_amount"}
      [] g = "WEEKLY"  -> {"week_over_week_change_percent",
                           "week_over_week_change_amount"}
      [] g = "MONTHLY" -> {"month_over_month_change_percent",
                           "month_over_month_change_amount"}
      [] OTHER         -> {"day_over_day_change_percent",
                           "day_over_day_change_amount"}

\* C13 as claimed: the result of calculate_cost_trends has change-amount
\* fields if and only if the per-period series has two entries or more,
\* whatever the sum of the previous period, and has no change-percent field
\* when the sum of the previous period is zero.
C13_ChangeAmountIffTwoPeriods ==
    Trended
        => /\ (DOMAIN trends \cap ChangeAmountNames # {}) <=> TwoPeriods(df)
           /\ (TwoPeriods(df) /\ PreviousSum(df) = 0)
                  => DOMAIN trends \cap ChangePercentNames = {}

\* C13, amended: the change-amount fields, like the change-percent fields,
\* are present if and only if the series has two entries or more and the sum
\* of the previous period is greater than zero; when that sum is zero or
\* negative the result has no change field at all.
C13_ChangeFieldsIffPreviousPositive ==
    Trended
        => LET reported == TwoPeriods(df) /\ PreviousSum(df) > 0
           IN  /\ (DOMAIN trends \cap ChangeAmountNames # {}) <=> reported
               /\ (DOMAIN trends \cap ChangePercentNames # {}) <=> reported

\* The trends of two periods have been calculated, the previous period sums
\* to zero and the current one does not: no change field is in the result.
C13_Witness ==
    /\ Trended
    /\ TwoPeriods(df)
    /\ PreviousSum(df) = 0
    /\ CurrentSum(df) > 0
    /\ trends.periods >= 2
    /\ DOMAIN trends \cap (ChangeAmountNames \cup ChangePercentNames) = {}

\* C14 as claimed: for HOURLY, DAILY, WEEKLY and MONTHLY, whenever the series
\* has two entries or more the result holds period_change_percent and
\* period_change_amount besides the change fields named after the
\* granularity.
C14_PeriodChangeFields ==
    (Trended /\ granularity \in {"HOURLY", "DAILY", "WEEKLY", "MONTHLY"}
        /\ TwoPeriods(df))
        => ({"period_change_percent", "period_change_amount"}
                \cup ChangeNamesOf(granularity)) \subseteq DOMAIN trends

\* C14, amended: for each of the four granularities, whenever the series has
\* two entries or more and the sum of the previous period is greater than
\* zero, the result holds the granularity-independent fields
\* mom_change_percent and mom_change_amount besides the change fields named
\* after the granularity, with the same values; no field is named
\* period_change_percent or period_change_amount.
C14_MomChangeFields ==
    (Trended /\ granularity \in {"HOURLY", "DAILY", "WEEKLY", "MONTHLY"}
        /\ TwoPeriods(df) /\ PreviousSum(df) > 0)
        => /\ ({"mom_change_percent", "mom_change_amount"}
                  \cup ChangeNamesOf(granularity)) \subseteq DOMAIN trends
           /\ \A k \in ChangeNamesOf(granularity) :
                  \/ k \in ChangePercentNames
                        /\ trends[k] = trends.mom_change_percent
                  \/ k \in ChangeAmountNames
                        /\ trends[k] = trends.mom_change_amount
           /\ {"period_change_percent", "period_change_amount"}
                  \cap DOMAIN trends = {}

\* Weekly trends of two periods with a positive previous sum have been
\* calculated, and the change is not zero.
C14_Witness ==
    /\ Trended
    /\ granularity = "WEEKLY"
    /\ TwoPeriods(df)
    /\ PreviousSum(df) > 0
    /\ "week_over_week_change_amount" \in DOMAIN trends
    /\ trends.mom_change_amount # 0

\* A fraction is the quotient of num by den.
IsQuotient(q, num, den) == q.den > 0 /\ q.num * den = num * q.den

\* C15: whenever change fields are reported, they are those of the two
\* chronologically last periods of the per-period sums, whatever the order
\* of the records and whatever the gap between the periods: the amount is
\* current - previous and the percent (current - previous) / previous * 100,
\* current being the sum of the latest StartDate and previous that of the
\* second latest.
C15_ChangeOfLastTwoPeriods ==
    Trended
        => /\ \A k \in DOMAIN trends \cap ChangeAmountNames :
                  trends[k] = CurrentSum(df) - PreviousSum(df)
           /\ \A k \in DOMAIN trends \cap ChangePercentNames :
                  IsQuotient(trends[k],
                             (CurrentSum(df) - PreviousSum(df)) * 100,
                             PreviousSum(df))

\* Records given latest period first, of January and April with no period
\* between, have a change reported that is not zero.
C15_Witness ==
    /\ Trended
    /\ Len(df) >= 2
    /\ df[1].StartDate = ToDatetime(<<2024, 4, 1>>)
    /\ df[Len(df)].StartDate = ToDatetime(<<2024, 1, 1>>)
    /\ PeriodDates(df)
          = {ToDatetime(<<2024, 1, 1>>), ToDatetime(<<2024, 4, 1>>)}
    /\ "mom_change_amount" \in DOMAIN trends
    /\ trends.mom_change_amount < 0
    /\ trends.mom_change_percent.num < 0

\* C16: for a record set with a 'BlendedCost' record, cost_by_period has one
\* entry per distinct StartDate, in strictly ascending order of StartDate
\* whatever the order of the records, the Amount of an entry is the sum of
\* the 'BlendedCost' amounts of its StartDate, 'Total' rows included, and
\* 'periods' is the number of entries.
C16_CostByPeriod ==
    (Trended /\ BlendedIdx(df) # {})
        => LET series == trends.cost_by_period
           IN  /\ Len(series) = Cardinality(PeriodDates(df))
               /\ {series[i].StartDate : i \in 1..Len(series)}
                     = PeriodDates(df)
               /\ \A i \in 1..(Len(series) - 1) :
                      series[i].StartDate < series[i + 1].StartDate
               /\ \A i \in 1..Len(series) :
                      series[i].Amount = PeriodSum(df, series[i].StartDate)
               /\ trends.periods = Len(series)

\* Records given latest period first, one of them a 'Total' row that shares
\* its period with a service, have given a series of two entries.
C16_Witness ==
    /\ Trended
    /\ Len(df) = 3
    /\ df[1].StartDate > df[3].StartDate
    /\ \E i, j \in BlendedIdx(df) :
           /\ df[i].Service = "Total"
           /\ df[j].Service # "Total"
           /\ df[i].StartDate = df[j].StartDate
           /\ df[j].Amount > 0
    /\ trends.periods = 2

AverageNames ==
    {"average_hourly_cost", "average_daily_cost", "average_weekly_cost",
     "average_monthly_cost"}

AverageNameOf(g) ==
    CASE g = "HOURLY"  -> "average_hourly_cost"
      [] g = "WEEKLY"  -> "average_weekly_cost"
      [] g = "MONTHLY" -> "average_monthly_cost"
      [] OTHER         -> "average_daily_cost"

\* The change fields that are named after some granularity.
SpecificChangeNames ==
    (ChangeAmountNames \cup ChangePercentNames)
        \ {"mom_change_amount", "mom_change_percent",
           "period_change_amount", "period_change_percent"}

\* C17: the average field and the granularity-specific change fields of the
\* result are named after the granularity (hourly / hour_over_hour, daily /
\* day_over_day, weekly / week_over_week, monthly / month_over_month), there
\* is exactly one average field, and a granularity outside the four is named
\* as DAILY.
C17_NamesByGranularity ==
    (Trended /\ BlendedIdx(df) # {})
        => /\ DOMAIN trends \cap AverageNames = {AverageNameOf(granularity)}
           /\ DOMAIN trends \cap SpecificChangeNames
                 = IF TwoPeriods(df) /\ PreviousSum(df) > 0
                   THEN ChangeNamesOf(granularity) ELSE {}

\* Trends have been calculated for a granularity that is none of the four,
\* with a change reported.
C17_Witness ==
    /\ Trended
    /\ granularity = "YEARLY"
    /\ "average_daily_cost" \in DOMAIN trends
    /\ "day_over_day_change_percent" \in DOMAIN trends

\* C18 as claimed: calculate_cost_trends called without a granularity, on a
\* record set of two periods with a positive sum of the previous one, gives
\* a result with the keys total_cost, average_monthly_cost and
\* mom_change_percent, total_cost being the sum of all 'BlendedCost' amounts
\* and periods 2.
C18_DefaultCallKeys ==
    (Trended /\ granularity = NoGranularity
        /\ Cardinality(PeriodDates(df)) = 2 /\ PreviousSum(df) > 0)
        => /\ {"total_cost", "average_monthly_cost", "mom_change_percent"}
                 \subseteq DOMAIN trends
           /\ trends.total_cost = AmountOver(df, BlendedIdx(df))
           /\ trends.periods = 2

\* The report of scenario A: EC2 100.50 then 120.00, S3 25.75 then 30.25.
ScenarioA ==
    [ResultsByTime |->
        <<ScenarioPeriod(<<2024, 1, 1>>, <<2024, 1, 31>>,
                         <<"1", "0", "0", ".", "5", "0">>,
                         <<"2", "5", ".", "7", "5">>),
          ScenarioPeriod(<<2024, 2, 1>>, <<2024, 2, 29>>,
                         <<"1", "2", "0", ".", "0", "0">>,
                         <<"3", "0", ".", "2", "5">>)>>]

\* C19: for the report of scenario A the summary has total_cost 276.50,
\* service_count 2 and the EC2 service as top_service, and the trend has a
\* change amount of 24.00 and a change percent of 24.00 / 126.25 * 100,
\* which is 19.01 to two decimals.
C19_ScenarioA ==
    response = ScenarioA
        => /\ summary # Unset
                 => /\ summary.total_cost = 27650
                    /\ summary.service_count = 2
                    /\ summary.top_service = "Amazon EC2-Instance"
           /\ Trended
                 => /\ trends.mom_change_amount = 2400
                    /\ IsQuotient(trends.mom_change_percent,
                                  2400 * 100, 12625)
                    /\ trends.mom_change_percent.num * 1000
                          >= 19005 * trends.mom_change_percent.den
                    /\ trends.mom_change_percent.num * 1000
                          < 19015 * trends.mom_change_percent.den

\* The report of scenario A has been normalized and summarised, and its
\* monthly trends calculated.
C19_Witness ==
    /\ response = ScenarioA
    /\ pc = "trended"
    /\ summary # Unset
    /\ granularity = "MONTHLY"
    /\ Len(df) = 4
    /\ "month_over_month_change_amount" \in DOMAIN trends

Weekly == pc = "weekly"

\* 2024-01-01 is a Monday.
IsMonday(day) == (day - ToDatetime(<<2024, 1, 1>>)) % 7 = 0

\* The rows of the weekly DataFrame that absorb a record: those of its
\* service, metric and unit whose week holds its date.
AbsorbedBy(row) ==
    {j \in 1..Len(weekly_df) :
        /\ weekly_df[j].Service = row.Service
        /\ weekly_df[j].MetricName = row.MetricName
        /\ weekly_df[j].Unit = row.Unit
        /\ weekly_df[j].StartDate <= row.StartDate
        /\ row.StartDate <= weekly_df[j].EndDate}

\* C20 as claimed: aggregate_to_weekly maps the StartDate of every record to
\* the start of its ISO week: the StartDate of the weekly row that absorbs
\* the record is a Monday, is not later than the date of the record and at
\* most 6 days before it, and is that date itself for a record dated on a
\* Monday.
C20_WeekStartIsMonday ==
    Weekly
        => \A i \in 1..Len(df) :
               /\ AbsorbedBy(df[i]) # {}
               /\ \A j \in AbsorbedBy(df[i]) :
                      /\ IsMonday(weekly_df[j].StartDate)
                      /\ weekly_df[j].StartDate <= df[i].StartDate
                      /\ df[i].StartDate - weekly_df[j].StartDate <= 6
                      /\ IsMonday(df[i].StartDate)
                            => weekly_df[j].StartDate = df[i].StartDate

\* The rows of a DataFrame with the service, metric and unit of a key.
OfKind(rows, kind) ==
    SelectSeq(rows, LAMBDA row : /\ row.Service = kind[1]
                                 /\ row.MetricName = kind[2]
                                 /\ row.Unit = kind[3])

KindOf(row) == <<row.Service, row.MetricName, row.Unit>>

\* The records that a row of the weekly DataFrame absorbs: those of its
\* service, metric and unit dated within its week.
RecordsOf(weekly_row) ==
    SelectSeq(df, LAMBDA row : /\ KindOf(row) = KindOf(weekly_row)
                               /\ weekly_row.StartDate <= row.StartDate
                               /\ row.StartDate <= weekly_row.EndDate)

\* C21: the output of aggregate_to_weekly has one record per (week_start,
\* Service, MetricName, Unit) combination of the input: the output records
\* differ in that combination, their weeks start on one day of the week and
\* last from StartDate to EndDate = StartDate + 6 days, every input record
\* lies in the week of exactly one output record of its service, metric and
\* unit, and every output record holds the sum of the amounts of the input
\* records it absorbs, of which there is at least one.
C21_OneRecordPerWeekAndKind ==
    Weekly
        => /\ \A j \in 1..Len(weekly_df) :
                  /\ weekly_df[j].EndDate = weekly_df[j].StartDate + 6
                  /\ weekly_df[j].StartDate < weekly_df[j].EndDate
                  /\ RecordsOf(weekly_df[j]) # <<>>
                  /\ weekly_df[j].Amount = SumAmount(RecordsOf(weekly_df[j]))
           /\ \A j, k \in 1..Len(weekly_df) :
                  /\ (weekly_df[j].StartDate - weekly_df[k].StartDate) % 7 = 0
                  /\ j # k
                        => \/ weekly_df[j].StartDate # weekly_df[k].StartDate
                           \/ KindOf(weekly_df[j]) # KindOf(weekly_df[k])
           /\ \A i \in 1..Len(df) : Cardinality(AbsorbedBy(df[i])) = 1

\* Three daily records have been aggregated to two weekly records, one of
\* them the sum of two.
C21_Witness ==
    /\ Weekly
    /\ Len(df) = 3
    /\ Len(weekly_df) = 2
    /\ \E j \in 1..2 : /\ Len(RecordsOf(weekly_df[j])) = 2
                       /\ weekly_df[j].Amount = 5150

\* C22: aggregate_to_weekly is sum-preserving: for each (Service,
\* MetricName, Unit) the amounts of the output records add up to the amounts
\* of the input records, and every input record is counted in exactly one
\* output record.
C22_SumPreserving ==
    Weekly
        => /\ \A i \in 1..Len(df) :
                  SumAmount(OfKind(weekly_df, KindOf(df[i])))
                      = SumAmount(OfKind(df, KindOf(df[i])))
           /\ \A j \in 1..Len(weekly_df) :
                  SumAmount(OfKind(weekly_df, KindOf(weekly_df[j])))
                      = SumAmount(OfKind(df, KindOf(weekly_df[j])))
           /\ \A i \in 1..Len(df) :
                  \E j \in 1..Len(weekly_df) : AbsorbedBy(df[i]) = {j}
           /\ SumAmount(weekly_df) = SumAmount(df)

\* Three daily records of one service, metric and unit have been summed into
\* one weekly record.
C22_Witness ==
    /\ Weekly
    /\ Len(df) = 3
    /\ Len(weekly_df) = 1
    /\ weekly_df[1].Amount = 7725

\* The Monday on or before a day: the start of its ISO week.
IsoWeekStart(day) == day - DayOfWeek(day)

IsoWeeksOf(rows) == {IsoWeekStart(rows[i].StartDate) : i \in 1..Len(rows)}

\* The sum of the amounts of the records dated in the ISO week of a Monday.
IsoWeekSum(rows, monday) ==
    SumAmount(SelectSeq(rows,
                        LAMBDA row : IsoWeekStart(row.StartDate) = monday))

\* C23 as claimed: seven consecutive daily records of one service that span
\* two ISO weeks are aggregated to exactly two weekly records, one for each
\* of the two ISO weeks and equal to the sum of the amounts of its days, each
\* with EndDate = StartDate + 6 days.
C23_ScenarioD ==
    (Weekly /\ Cardinality(IsoWeeksOf(df)) = 2)
        => /\ Len(weekly_df) = 2
           /\ \A monday \in IsoWeeksOf(df) :
                  \E j \in 1..Len(weekly_df) :
                      weekly_df[j].Amount = IsoWeekSum(df, monday)
           /\ \A j \in 1..Len(weekly_df) :
                  /\ \E monday \in IsoWeeksOf(df) :
                         weekly_df[j].Amount = IsoWeekSum(df, monday)
                  /\ weekly_df[j].EndDate = weekly_df[j].StartDate + 6

Reweekly == pc = "reweekly"

\* C24: aggregating the weekly DataFrame again changes nothing: the result
\* has the same records, with the same StartDate, EndDate, Service,
\* MetricName, Unit and Amount, as the weekly DataFrame.
C24_WeeklyAgainIsNoOp ==
    Reweekly
        => /\ Len(reweekly_df) = Len(weekly_df)
           /\ \A j \in 1..Len(weekly_df) :
                  Cardinality({k \in 1..Len(reweekly_df) :
                                  reweekly_df[k] = weekly_df[j]})
                      = Cardinality({k \in 1..Len(weekly_df) :
                                        weekly_df[k] = weekly_df[j]})

\* The weekly DataFrame of three daily records, with rows of two weeks, has
\* been aggregated again.
C24_Witness ==
    /\ Reweekly
    /\ Len(df) = 3
    /\ Len(weekly_df) >= 2
    /\ \E j, k \in 1..Len(weekly_df) :
           weekly_df[j].StartDate # weekly_df[k].StartDate
    /\ \E j \in 1..Len(weekly_df) : weekly_df[j].Amount = 5150


\* A record set that is empty or has no 'BlendedCost' record.
NoBlendedCost(rows) == BlendedIdx(rows) = {}

\* C25: for an empty record set, and for one with no 'BlendedCost' record,
\* get_top_services_by_cost returns an empty ranking,
\* calculate_service_cost_trends an empty table and calculate_cost_trends a
\* result with no fields; aggregate_to_weekly returns an empty record set
\* for an empty record set; none of the calls raises.
C25_EmptyResults ==
    /\ raised = "none"
    /\ NoBlendedCost(df)
          => /\ Ranked => ranking = EmptyDataFrame
             /\ Trended => DOMAIN trends = {}
             /\ Pivoted => pivot_df = EmptyDataFrame
    /\ (Weekly /\ df = <<>>) => weekly_df = <<>>

\* Both trend calls have been made on a record set that is not empty and has
\* no 'BlendedCost' record.
C25_Witness ==
    /\ Pivoted
    /\ df # <<>>
    /\ NoBlendedCost(df)
    /\ trends = <<>>
    /\ pivot_df = EmptyDataFrame

\* C29: for a record set with a 'BlendedCost' record and every granularity,
\* the total_cost of calculate_cost_trends is the total_cost of
\* generate_cost_summary and the sum of the amounts of cost_by_period, and
\* the average field is total_cost divided by periods.
C29_TotalsAgree ==
    (Trended /\ summary # Unset /\ ~NoBlendedCost(df))
        => /\ trends.total_cost = summary.total_cost
           /\ trends.total_cost = SumAmount(trends.cost_by_period)
           /\ \A name \in DOMAIN trends \cap AverageNames :
                  IsQuotient(trends[name], trends.total_cost, trends.periods)
           /\ DOMAIN trends \cap AverageNames # {}
           /\ trends.periods > 0

\* A record set of two periods, one of them a 'Total' credit, has been
\* summarised and its weekly trends calculated: 25.75 less 3.25 is 22.50,
\* on average 11.25.
C29_Witness ==
    /\ Trended
    /\ summary # Unset
    /\ granularity = "WEEKLY"
    /\ trends # <<>>
    /\ trends.periods = 2
    /\ trends.total_cost = 2250
    /\ trends.average_weekly_cost.den = 1
    /\ \E i \in 1..Len(df) : df[i].Service = "Total"

\* The weekly DataFrame of a record set that was summarised and ranked has
\* been summarised and ranked: the weekly aggregation follows the
\* normalization or the ranking, and the ranking follows the summary.
WeeklyRanked == pc = "weekly_ranked" /\ summary # Unset

\* The amounts of a ranking, in its order.
AmountsOf(r) == [i \in 1..Len(r) |-> r[i].Amount]

\* No two services of the record set have the same summed cost.
NoTies(rows) ==
    LET costs == GroupByService(SelectSeq(rows, IsBlendedCostOfService))
    IN  \A i, j \in 1..Len(costs) :
            i # j => costs[i].Amount # costs[j].Amount

\* C30: the summary of the weekly DataFrame has the total_cost,
\* service_count and top_service_cost of the summary of the daily record
\* set, and the ranking of the weekly DataFrame is a ranking of the daily
\* record set for the same top_n: it has the same amounts, it is one of the
\* rankings the daily record set can give and, where no two services cost
\* the same, it is the ranking the daily record set gave.
C30_RebucketKeepsServiceResults ==
    WeeklyRanked
        => /\ weekly_summary.total_cost = summary.total_cost
           /\ weekly_summary.service_count = summary.service_count
           /\ weekly_summary.top_service_cost = summary.top_service_cost
           /\ AmountsOf(weekly_ranking) = AmountsOf(ranking)
           /\ weekly_ranking \in get_top_services_by_cost(df, top_n)
           /\ get_top_services_by_cost(weekly_df, top_n)
                 = get_top_services_by_cost(df, top_n)
           /\ NoTies(df) => weekly_ranking = ranking

\* Three daily records of two services, two of them of one week, have been
\* summarised and ranked before and after the weekly aggregation.
C30_Witness ==
    /\ WeeklyRanked
    /\ Len(df) = 3
    /\ Len(weekly_df) = 2
    /\ top_n = 2
    /\ Len(weekly_ranking) = 2
    /\ weekly_summary.time_periods # summary.time_periods


\* The client a successful first boto3.client call of the instance creates.
FirstClient == [service |-> "ce", region_name |-> region, id |-> 1]

\* Every access so far has returned the given object, and every request
\* was sent through it.
AllThrough(object) ==
    /\ \A i \in 1..Len(accesses) : accesses[i] = [returned |-> object]
    /\ \A i \in 1..Len(requests) : requests[i].client = object

\* C26 as claimed: no client is created at construction, the first access
\* to the client property creates it for service 'ce' in region us-east-1,
\* and every later access and API call gets the same object without another
\* one being created.
C26_LazyOnce ==
    /\ accesses = <<>> => (boto3_calls = <<>> /\ _client = None)
    /\ accesses # <<>>
          => /\ boto3_calls = <<Boto3Call("us-east-1", "none")>>
             /\ _client = [service |-> "ce", region_name |-> "us-east-1",
                           id |-> 1]
             /\ AllThrough(_client)

\* C26: no client is created at construction; the first access to the
\* client property calls boto3.client, once, for service 'ce' in the region
\* of the instance; if the call raises NoCredentialsError the script is
\* stopped and the instance has no client; otherwise the client it returns
\* is stored, every later access and API call gets that same object and
\* boto3.client is not called again.
C26_LazyOncePerInstance ==
    /\ accesses = <<>> => (boto3_calls = <<>> /\ _client = None)
    /\ accesses # <<>> => Len(boto3_calls) = 1
    /\ \A k \in 1..Len(boto3_calls) :
           /\ boto3_calls[k].service = "ce"
           /\ boto3_calls[k].region_name = region
           /\ boto3_calls[k].raised = "NoCredentialsError"
                 => /\ pc = "stopped"
                    /\ _client = None
                    /\ accesses = <<[stopped |-> TRUE]>>
                    /\ requests = <<>>
           /\ boto3_calls[k].raised = "none"
                 => /\ pc # "stopped"
                    /\ _client = FirstClient
                    /\ AllThrough(FirstClient)

\* The client of an instance of the default region has been accessed three
\* times, twice of them for an API call.
C26_Witness ==
    /\ pc = "constructed"
    /\ region = AWS_COST_EXPLORER_REGION
    /\ Len(accesses) = 3
    /\ Len(requests) = 2
    /\ Len(boto3_calls) = 1
    /\ _client = FirstClient

\* The requests of the run that fetch billing data.
Fetches ==
    {i \in 1..Len(requests) : requests[i].operation = "get_cost_and_usage"}

\* C27: aggregate_to_weekly is invoked at most once in a run, only when the
\* display granularity is WEEKLY and only on records fetched with
\* granularity DAILY; Cost Explorer is never asked for granularity WEEKLY;
\* for HOURLY, DAILY and MONTHLY the granularity asked for is the display
\* granularity and aggregate_to_weekly is not invoked.
C27_WeeklyOnlyFromDaily ==
    /\ Len(weekly_calls) <= 1
    /\ weekly_calls # <<>>
          => /\ display_granularity = "WEEKLY"
             /\ weekly_calls = <<"DAILY">>
             /\ aws_granularity = "DAILY"
    /\ \A i \in 1..Len(requests) : requests[i].Granularity # "WEEKLY"
    /\ \A i \in Fetches :
           /\ requests[i].Granularity = aws_granularity
           /\ display_granularity = "WEEKLY"
                 => requests[i].Granularity = "DAILY"
           /\ display_granularity \in {"HOURLY", "DAILY", "MONTHLY"}
                 => requests[i].Granularity = display_granularity
    /\ display_granularity \in {"HOURLY", "DAILY", "MONTHLY"}
          => /\ aws_granularity = display_granularity
             /\ weekly_calls = <<>>
             /\ weekly_df = Unset

\* A dashboard of weekly granularity has been rendered from a report that
\* was fetched.
C27_Witness ==
    /\ pc = "rendered"
    /\ display_granularity = "WEEKLY"
    /\ weekly_calls = <<"DAILY">>
    /\ Fetches # {}
    /\ Len(df) >= 2

Last(s) == s[Len(s)]

RunEnded == pc \in {"returned", "stopped", "raised", "rendered"}

\* The normalizer has been called in the run.
NormalizerRan ==
    \/ pc \in {"normalized", "rendered"}
    \/ pc = "returned" /\ Last(shown) = "warning: No cost data available"
    \/ pc = "raised" /\ raw_data # Unset

\* The steps of the run are ordered and guarded: billing data is fetched
\* only after validate_credentials returned True, the normalizer runs only
\* on a report that is not empty, a fetch that failed with a ClientError
\* yields the empty mapping and ends the run with the 'no billing data'
\* error, and the dashboard is rendered only for a record set that is not
\* empty, as the last step.
RunOrderedAndGuarded ==
    /\ \A i \in Fetches :
           /\ i > 1
           /\ requests[1].operation = "validate_credentials"
           /\ requests[1].result = [raised |-> "none", returned |-> TRUE]
           /\ requests[1].api = "none"
    /\ Fetches # {} => "success: AWS connection successful" = shown[1]
    /\ raw_data # Unset => shown[1] = "success: AWS connection successful"
    /\ NormalizerRan => ~Falsy(raw_data)
    /\ \A i \in Fetches :
           requests[i].api = "ClientError"
               => /\ raw_data = <<>>
                  /\ pc \in {"loaded", "returned"}
                  /\ pc = "returned"
                        => Last(shown) = "error: No billing data found"
    /\ (\E i \in 1..Len(shown) : shown[i] = "dashboard")
          <=> pc = "rendered"
    /\ pc = "rendered"
          => /\ Last(shown) = "dashboard"
             /\ df # <<>>
             /\ ~Falsy(raw_data)

\* C28 as claimed: the steps of the run are ordered and guarded, and in
\* every case but that of a record set that is not empty the run returns
\* without rendering.
C28_RunReturnsUnlessRendered ==
    /\ RunOrderedAndGuarded
    /\ RunEnded => pc \in {"rendered", "returned"}

\* C28: the steps of the run are ordered and guarded, and in every case but
\* that of a record set that is not empty the run ends without rendering:
\* it returns after the message of the guard that failed, it is stopped by
\* st.stop(), or it is left by an exception of the validation, the fetch or
\* the normalizer.
C28_RunEndsUnlessRendered ==
    /\ RunOrderedAndGuarded
    /\ pc = "returned"
          => Last(shown) \in {"error: AWS Connection Failed",
                              "error: No billing data found",
                              "warning: No cost data available"}
    /\ pc = "stopped"
          => Last(shown) \in {"error: AWS credentials not found",
                              "error: Start date must be before end date",
                              "error: Date range cannot exceed",
                              "error: granularity supports maximum"}
    /\ pc = "raised"
          => /\ raised # "none"
             /\ raised \notin {"ClientError"}
    /\ raised # "none" => pc = "raised"

\* The fetch of a run failed with a ClientError and the run has returned
\* with the 'no billing data' error.
C28_Witness ==
    /\ pc = "returned"
    /\ Fetches # {}
    /\ \E i \in Fetches : requests[i].api = "ClientError"
    /\ raw_data = <<>>
    /\ Last(shown) = "error: No billing data found"


====
